---- MODULE Spec2Model ----
(***************************************************************************)
(* A model of the flight-data-reader crate: loading, validating and       *)
(* querying a configuration, the packet codec (PacketParser) and the two   *)
(* row engines (TableGenerator and CsvGenerator).                          *)
(*                                                                         *)
(* Specifications.  Spec: the row engines over an upstream Vec.            *)
(* ParserSpec: the codec over a byte stream.  ValueSpec: one read_value    *)
(* call.  ConfigSpec: one validate or get_sensor_by_id call.               *)
(* RestrictedSpec: a TableGenerator whose columns are restricted.          *)
(* PipeSpec: the row engines over a PacketParser.  ToolSpec: one run of a  *)
(* consumer (the CLI's convert_data, the web package's convert_to_csv,     *)
(* Report::new) over a byte stream.                                        *)
(*                                                                         *)
(* Representation.  A Value (the Rust union) is the bit pattern it holds,  *)
(* written as the tuple of its bytes, most significant byte first.  An     *)
(* Option is [tag |-> "None"] or [tag |-> "Some", val |-> x]; a Result is  *)
(* [tag |-> "Ok", val |-> x] or [tag |-> "Err", val |-> e].  A panic of    *)
(* the process is the pseudo-result [tag |-> "Panic"].                     *)
(***************************************************************************)
EXTENDS Integers, Sequences, FiniteSets, TLC

VARIABLES
    document,    \* the configuration document the RocketConfig was loaded from
    config,      \* the RocketConfig shared by parser and row engines
    config_out,  \* the call made on the RocketConfig itself, None before it: what
                 \* it was (op, args), what it returned (ret), the config it left
                 \* (self)
    upstream,    \* the items of the Vec the row engines were built from
    table,       \* the TableGenerator: iter, config, packet_buf, columns
    table_out,   \* per TableGenerator::next call so far: what it returned (ret)
                 \* and the generator it left behind (self)
    csv,         \* the CsvGenerator: iter, is_first, config, packet_buf, columns
    csv_out,     \* the same record of the CsvGenerator::next calls
    sent,        \* what the flight computer wrote: packets and stray bytes
    wire,        \* the bytes of the reader a PacketParser was built from
    parser,      \* the PacketParser: reader (the bytes not yet read), config
    parser_out,  \* the same record of the PacketParser::next calls
    tool_out     \* the one run of a consuming tool, None before it: which tool
                 \* (op), what it returned (ret) and what it wrote

vars == <<document, config, config_out, upstream, table, table_out, csv, csv_out,
          sent, wire, parser, parser_out, tool_out>>

----------------------------------------------------------------------------
(* Bounds of the model *)

\* longest upstream Vec handed to a row engine
MaxPackets == 3

\* most frames (whole packets or single bytes) a byte stream is made of
MaxFrames == 3

\* most sensors of a configuration whose ids are drawn freely
MaxSensors == 3

\* most frames of a byte stream that a row engine reads through a parser
MaxPipeFrames == 2

----------------------------------------------------------------------------
(* Option, Result and small helpers *)

None == [tag |-> "None"]
Some(x) == [tag |-> "Some", val |-> x]
Ok(x) == [tag |-> "Ok", val |-> x]
Err(e) == [tag |-> "Err", val |-> e]
Panic == [tag |-> "Panic"]

Min(S) == CHOOSE m \in S : \A n \in S : m <= n

Range(s) == {s[i] : i \in 1..Len(s)}

RECURSIVE SeqsUpTo(_, _)
SeqsUpTo(S, n) ==
    IF n = 0 THEN {<<>>}
    ELSE LET shorter == SeqsUpTo(S, n - 1)
         IN shorter \cup {Append(s, x) : s \in {t \in shorter : Len(t) = n - 1}, x \in S}

----------------------------------------------------------------------------
(* PacketError, Packet, TypedValue *)

InvalidId(id) == [kind |-> "InvalidId", id |-> id]
\* The variant with its two fields mixed up.
InvalidValueCount_swapped(actual, expected) ==
    [kind |-> "InvalidValueCount", actual |-> expected, expected |-> actual]

InvalidValueCount(actual, expected) ==
    [kind |-> "InvalidValueCount", actual |-> actual, expected |-> expected]

Packet(id, values) == [id |-> id, values |-> values]

TypedValue_new(value, value_kind) == [value |-> value, value_kind |-> value_kind]

----------------------------------------------------------------------------
(* Configuration *)

ValueConfig(name, data_type) == [name |-> name, data_type |-> data_type]
SensorConfig(name, id, values) == [name |-> name, id |-> id, values |-> values]
RocketConfig(name, sensors, endianess) ==
    [name |-> name, sensors |-> sensors, endianess |-> endianess]

\* The HashSet loop of validate from the i-th sensor on, `ids` being the ids
\* seen before it, for a check that forgets all ids but the last one seen.
RECURSIVE validate_adjacent_from(_, _, _)
validate_adjacent_from(self, i, ids) ==
    IF i > Len(self.sensors) THEN Ok(<<>>)
    ELSE IF self.sensors[i].id \in ids
    THEN Err("Multiple sensors with ID: " \o ToString(self.sensors[i].id))
    ELSE validate_adjacent_from(self, i + 1, {self.sensors[i].id})

\* The HashSet loop of validate from the i-th sensor on, `ids` being the ids
\* seen before it.  Ok(<<>>) is Ok(()).
RECURSIVE validate_from(_, _, _)
validate_from(self, i, ids) ==
    IF i > Len(self.sensors) THEN Ok(<<>>)
    ELSE IF self.sensors[i].id \in ids
    THEN Err("Multiple sensors with ID: " \o ToString(self.sensors[i].id))
    ELSE validate_from(self, i + 1, ids \cup {self.sensors[i].id})

\* validate takes &self: the configuration it leaves is the one it got.
validate(self) == [self |-> self, ret |-> validate_from(self, 1, {})]

\* A lookup that takes the sensors to be sorted by id and gives up at the
\* first id above the argument.
get_sensor_by_id_sorted(cfg, id) ==
    LET stops == {i \in 1..Len(cfg.sensors) : cfg.sensors[i].id >= id}
    IN  IF stops = {} \/ cfg.sensors[Min(stops)].id # id THEN None
        ELSE Some(cfg.sensors[Min(stops)])

\* The first sensor, in declared order, whose id is the argument.
get_sensor_by_id(cfg, id) ==
    LET hits == {i \in 1..Len(cfg.sensors) : cfg.sensors[i].id = id}
    IN IF hits = {} THEN None ELSE Some(cfg.sensors[Min(hits)])

\* The configuration of the crate's row-engine tests.
TestConfig ==
    RocketConfig("test",
        << SensorConfig("test", 0, << ValueConfig("value", "Float32"),
                                      ValueConfig("value2", "Int32") >>) >>,
        "Big")

\* Two sensors of one column each, little endian.
TwoSensorConfig ==
    RocketConfig("ab",
        << SensorConfig("A", 1, << ValueConfig("x", "Int8") >>),
           SensorConfig("B", 2, << ValueConfig("y", "UInt16") >>) >>,
        "Little")

\* A sensor that declares no value, and a third sensor that repeats id 1.
OddConfig ==
    RocketConfig("odd",
        << SensorConfig("S", 1, << ValueConfig("v", "UInt8"),
                                   ValueConfig("w", "Int16") >>),
           SensorConfig("Z", 2, << >>),
           SensorConfig("D", 1, << ValueConfig("u", "Int64") >>) >>,
        "Big")

\* Column names that collide: "a" + "b_c" and "a_b" + "c" across sensors,
\* and a value name used twice within sensor "r".
ClashConfig ==
    RocketConfig("clash",
        << SensorConfig("a", 1, << ValueConfig("b_c", "UInt64") >>),
           SensorConfig("a_b", 2, << ValueConfig("c", "Float64") >>),
           SensorConfig("r", 3, << ValueConfig("x", "UInt32"),
                                   ValueConfig("x", "Int8") >>) >>,
        "Little")

\* The sensors of the codec test's stream: LSM (id 1) and BMP (id 2).
ExampleConfig ==
    RocketConfig("example",
        << SensorConfig("LSM", 1, << ValueConfig("x", "Float32"),
                                     ValueConfig("y", "Float32"),
                                     ValueConfig("z", "Float32") >>),
           SensorConfig("BMP", 2, << ValueConfig("pressure", "Float32"),
                                     ValueConfig("temperature", "Float32") >>) >>,
        "Big")

Configs == {TestConfig, TwoSensorConfig, OddConfig, ClashConfig, ExampleConfig}

----------------------------------------------------------------------------
(* Loading a configuration *)

\* A configuration document: what a JSON text holds once it is parsed.  The
\* endianess field may be left out.
Document(name, sensors, endianess) ==
    [name |-> name, sensors |-> sensors, endianess |-> endianess]

\* A default that reverses multi-byte values.
Endianess_default_little == "Little"

Endianess_default == "Big"

\* serde_json::from_str into a RocketConfig: a field that is left out takes
\* its serde default.  Nothing else is looked at: validate is not called.
load_config_str(doc) ==
    Ok(RocketConfig(doc.name, doc.sensors,
                    IF doc.endianess = None THEN Endianess_default
                    ELSE doc.endianess.val))

\* The document of a configuration, with its endianess written out or not.
DocumentOf(cfg, stated) ==
    Document(cfg.name, cfg.sensors, IF stated THEN Some(cfg.endianess) ELSE None)

\* The documents of the configurations above.  Those of the crate's tests
\* rely on the default byte order.
Documents ==
    {DocumentOf(TestConfig, FALSE), DocumentOf(ExampleConfig, FALSE),
     DocumentOf(TwoSensorConfig, TRUE), DocumentOf(OddConfig, TRUE),
     DocumentOf(ClashConfig, TRUE)}

----------------------------------------------------------------------------
(* PacketParser *)

\* A table that reads a Float32 into the eight-byte buffer of a Float64.
Width_float32_as_float64(kind) ==
    CASE kind \in {"Int8", "UInt8"} -> 1
      [] kind \in {"Int16", "UInt16"} -> 2
      [] kind \in {"Int32", "UInt32"} -> 4
      [] kind \in {"Int64", "UInt64", "Float32", "Float64"} -> 8

\* The size of the buffer read_value fills for a kind, which is the size of
\* the union arm the value is written through.
Width(kind) ==
    CASE kind \in {"Int8", "UInt8"} -> 1
      [] kind \in {"Int16", "UInt16"} -> 2
      [] kind \in {"Int32", "UInt32", "Float32"} -> 4
      [] kind \in {"Int64", "UInt64", "Float64"} -> 8

Reverse(s) == [i \in 1..Len(s) |-> s[Len(s) + 1 - i]]

is_big(endianess) == endianess = "Big"

\* The macro with its two arms exchanged.
from_le_or_be_bytes_swapped(bytes, endianess) ==
    IF is_big(endianess) THEN Reverse(bytes) ELSE bytes

\* The bit pattern, most significant byte first, of the number whose bytes
\* in the given byte order are `bytes`.
from_le_or_be_bytes(bytes, endianess) ==
    IF is_big(endianess) THEN bytes ELSE Reverse(bytes)

PacketParser_new(reader, cfg) == [reader |-> reader, config |-> cfg]

\* A read_exact that wants one byte more than it returns.
read_exact_off_by_one(reader, n) ==
    IF Len(reader) > n
    THEN Ok([bytes |-> SubSeq(reader, 1, n), reader |-> SubSeq(reader, n + 1, Len(reader))])
    ELSE Err("UnexpectedEof")

\* Read::read_exact of n bytes from an in-memory reader: the bytes and the
\* reader behind them, or UnexpectedEof when fewer than n bytes are left.
read_exact(reader, n) ==
    IF Len(reader) >= n
    THEN Ok([bytes |-> SubSeq(reader, 1, n), reader |-> SubSeq(reader, n + 1, Len(reader))])
    ELSE Err("UnexpectedEof")

read_value(self, value_config) ==
    LET read(r) ==
            IF r.tag = "Err" THEN r
            ELSE Ok([value |-> IF value_config.data_type = "UInt8" THEN <<r.val.bytes[1]>>
                               ELSE from_le_or_be_bytes(r.val.bytes, self.config.endianess),
                     self |-> [self EXCEPT !.reader = r.val.reader]])
    IN  read(read_exact(self.reader, Width(value_config.data_type)))

\* A loop that stops one value configuration short of the sensor's last.
RECURSIVE ReadValues_one_short(_, _, _, _)
ReadValues_one_short(self, value_configs, i, values) ==
    IF i >= Len(value_configs) THEN [tag |-> "Ok", self |-> self, values |-> values]
    ELSE LET v == read_value(self, value_configs[i])
         IN  IF v.tag = "Err" THEN [tag |-> "Panic", self |-> self, values |-> values]
             ELSE ReadValues_one_short(v.val.self, value_configs, i + 1,
                                       Append(values, v.val.value))

\* The loop over the sensor's value configurations, from the i-th on:
\* read_value(..).unwrap() panics when the reader runs out.
RECURSIVE ReadValues(_, _, _, _)
ReadValues(self, value_configs, i, values) ==
    LET unwrap(v) ==
            IF v.tag = "Err" THEN [tag |-> "Panic", self |-> self, values |-> values]
            ELSE ReadValues(v.val.self, value_configs, i + 1, Append(values, v.val.value))
    IN  IF i > Len(value_configs) THEN [tag |-> "Ok", self |-> self, values |-> values]
        ELSE unwrap(read_value(self, value_configs[i]))

\* A next that, on an id no sensor has, also discards the byte after it.
PacketParser_next_skipping(self) ==
    LET first == read_exact(self.reader, 1)
        id == first.val.bytes[1]
        after_id == [self EXCEPT !.reader = first.val.reader]
        found == get_sensor_by_id(self.config, id)
        body == ReadValues(after_id, found.val.values, 1, <<>>)
        skipped == read_exact(after_id.reader, 1)
    IN  IF first.tag = "Err" THEN [self |-> self, ret |-> None]
        ELSE IF found.tag = "None"
        THEN [self |-> IF skipped.tag = "Err" THEN after_id
                       ELSE [after_id EXCEPT !.reader = skipped.val.reader],
              ret |-> Some(Err(InvalidId(id)))]
        ELSE IF body.tag = "Panic" THEN [self |-> body.self, ret |-> Panic]
        ELSE [self |-> body.self, ret |-> Some(Ok(Packet(id, body.values)))]

PacketParser_next(self) ==
    LET packet_of(id, body) ==
            IF body.tag = "Panic" THEN [self |-> body.self, ret |-> Panic]
            ELSE [self |-> body.self, ret |-> Some(Ok(Packet(id, body.values)))]
        sensor_of(id, after_id, found) ==
            IF found.tag = "None"
            THEN [self |-> after_id, ret |-> Some(Err(InvalidId(id)))]
            ELSE packet_of(id, ReadValues(after_id, found.val.values, 1, <<>>))
        id_of(first) ==
            IF first.tag = "Err" THEN [self |-> self, ret |-> None]
            ELSE sensor_of(first.val.bytes[1],
                           [self EXCEPT !.reader = first.val.reader],
                           get_sensor_by_id(self.config, first.val.bytes[1]))
    IN  id_of(read_exact(self.reader, 1))

----------------------------------------------------------------------------
(* The upstream iterator of a row engine: a Vec's into_iter().map(Ok), or  *)
(* more generally any Iterator<Item = Result<Packet, PacketError>>.        *)

VecIter(items) == [kind |-> "vec", items |-> items]

\* A PacketParser as the upstream: it is the Iterator the tools pass in.
ParserIter(packet_parser) == [kind |-> "parser", parser |-> packet_parser]

\* self.iter.next(); a panic inside the upstream's next unwinds through the
\* caller, so the item may be the pseudo-result of a panic.
IterNext(it) ==
    IF it.kind = "parser"
    THEN LET yielded(r) == [item |-> r.ret, iter |-> [it EXCEPT !.parser = r.self]]
         IN  yielded(PacketParser_next(it.parser))
    ELSE IF it.items = <<>> THEN [item |-> None, iter |-> it]
    ELSE [item |-> Some(Head(it.items)), iter |-> [it EXCEPT !.items = Tail(it.items)]]

----------------------------------------------------------------------------
(* TableGenerator *)

column_name(sensor, value) == sensor.name \o "_" \o value.name

RECURSIVE SensorColumns(_, _)
SensorColumns(sensor, i) ==
    IF i > Len(sensor.values) THEN <<>>
    ELSE <<column_name(sensor, sensor.values[i])>> \o SensorColumns(sensor, i + 1)

RECURSIVE ColumnsFrom(_, _)
ColumnsFrom(cfg, s) ==
    IF s > Len(cfg.sensors) THEN <<>>
    ELSE SensorColumns(cfg.sensors[s], 1) \o ColumnsFrom(cfg, s + 1)

columns(cfg) == ColumnsFrom(cfg, 1)

TableGenerator_new(iter, cfg) ==
    [iter |-> iter, config |-> cfg, columns |-> columns(cfg), packet_buf |-> <<>>]

column_names(self) == self.columns

\* The return value of a method that returns nothing.
Unit == [tag |-> "Unit"]

\* TableGenerator::allow_columns, which the crate's test_column_restriction
\* calls: from then on the generator's columns are the allowed ones, in the
\* order given.
allow_columns(self, allowed) == [self |-> [self EXCEPT !.columns = allowed], ret |-> Unit]

\* A next_packet that always asks the source iterator.
next_packet_skip_buf(self) ==
    LET r == IterNext(self.iter)
    IN  [item |-> r.item, self |-> [self EXCEPT !.iter = r.iter]]

\* A next_packet that reads the buffered packet and leaves it in the buffer.
next_packet_peek(self) ==
    IF self.packet_buf = <<>>
    THEN LET r == IterNext(self.iter)
         IN [item |-> r.item, self |-> [self EXCEPT !.iter = r.iter]]
    ELSE [item |-> Some(Ok(Head(self.packet_buf))), self |-> self]

\* A next_packet that asks the source iterator first and turns to the
\* buffered packet only when the source has nothing left.
next_packet_upstream_first(self) ==
    LET drawn(r) ==
            IF r.item.tag = "None" /\ self.packet_buf # <<>>
            THEN [item |-> Some(Ok(Head(self.packet_buf))),
                  self |-> [self EXCEPT !.packet_buf = Tail(self.packet_buf)]]
            ELSE [item |-> r.item, self |-> [self EXCEPT !.iter = r.iter]]
    IN  drawn(IterNext(self.iter))

\* self.packet_buf if it holds a packet, the source iterator otherwise.
next_packet(self) ==
    IF self.packet_buf = <<>>
    THEN LET drawn(r) == [item |-> r.item, self |-> [self EXCEPT !.iter = r.iter]]
         IN  drawn(IterNext(self.iter))
    ELSE [item |-> Some(Ok(Head(self.packet_buf))),
          self |-> [self EXCEPT !.packet_buf = Tail(self.packet_buf)]]

\* A check that never finds the sensor in the row.
AlreadyInRow_never(current_row, sensor) == FALSE

\* A clash check that ends the row as soon as the accumulator holds anything.
AlreadyInRow_nonempty(current_row, sensor) == DOMAIN current_row # {}

\* A clash check that looks the sensor's name up among the accumulator's
\* keys, which are column names.
AlreadyInRow_by_sensor_name(current_row, sensor) == sensor.name \in DOMAIN current_row

\* current_row.contains_key(column_name(sensor, spec)) for some spec of the sensor
AlreadyInRow(current_row, sensor) ==
    \E i \in 1..Len(sensor.values) :
        column_name(sensor, sensor.values[i]) \in DOMAIN current_row

\* HashMap::insert: a later insert of the same key replaces the value.
Insert(current_row, key, value) ==
    [k \in DOMAIN current_row \cup {key} |->
        IF k = key THEN value ELSE current_row[k]]

\* A zip loop that pairs the value configurations with the packet's values
\* taken from the far end.
RECURSIVE PushValues_reversed(_, _, _, _)
PushValues_reversed(current_row, sensor, packet, i) ==
    IF i > Len(sensor.values) \/ i > Len(packet.values) THEN current_row
    ELSE PushValues_reversed(
            Insert(current_row, column_name(sensor, sensor.values[i]),
                   TypedValue_new(packet.values[Len(packet.values) + 1 - i],
                                  sensor.values[i].data_type)),
            sensor, packet, i + 1)

\* The zip loop that inserts the packet's values, from the i-th on.
RECURSIVE PushValues(_, _, _, _)
PushValues(current_row, sensor, packet, i) ==
    IF i > Len(sensor.values) \/ i > Len(packet.values) THEN current_row
    ELSE PushValues(
            Insert(current_row, column_name(sensor, sensor.values[i]),
                   TypedValue_new(packet.values[i], sensor.values[i].data_type)),
            sensor, packet, i + 1)

\* A 'packet_loop that skips an upstream error and goes on drawing.
RECURSIVE packet_loop_keep_going(_, _)
packet_loop_keep_going(self, current_row) ==
    LET d == next_packet(self)
        packet == d.item.val.val
        found == get_sensor_by_id(d.self.config, packet.id)
        sensor == found.val
    IN  IF d.item.tag = "None"
        THEN [exit |-> "row", self |-> d.self, current_row |-> current_row,
              ret |-> None]
        ELSE IF d.item.val.tag = "Err"
        THEN packet_loop_keep_going(d.self, current_row)
        ELSE IF found.tag = "None"
        THEN [exit |-> "return", self |-> d.self, current_row |-> current_row,
              ret |-> Some(Err(InvalidId(packet.id)))]
        ELSE IF Len(packet.values) # Len(sensor.values)
        THEN [exit |-> "return", self |-> d.self, current_row |-> current_row,
              ret |-> Some(Err(InvalidValueCount(Len(packet.values), Len(sensor.values))))]
        ELSE IF AlreadyInRow(current_row, sensor)
        THEN [exit |-> "row",
              self |-> [d.self EXCEPT !.packet_buf = Append(@, packet)],
              current_row |-> current_row, ret |-> None]
        ELSE packet_loop_keep_going(d.self, PushValues(current_row, sensor, packet, 1))

\* A 'packet_loop that puts a packet it rejects back into the buffer, to be
\* drawn again by the next call.
RECURSIVE packet_loop_retrying(_, _)
packet_loop_retrying(self, current_row) ==
    LET d == next_packet(self)
        packet == d.item.val.val
        found == get_sensor_by_id(d.self.config, packet.id)
        sensor == found.val
        kept == [d.self EXCEPT !.packet_buf = Append(@, packet)]
    IN  IF d.item.tag = "None"
        THEN [exit |-> "row", self |-> d.self, current_row |-> current_row,
              ret |-> None]
        ELSE IF d.item.val.tag = "Err"
        THEN [exit |-> "return", self |-> d.self, current_row |-> current_row,
              ret |-> Some(Err(d.item.val.val))]
        ELSE IF found.tag = "None"
        THEN [exit |-> "return", self |-> kept, current_row |-> current_row,
              ret |-> Some(Err(InvalidId(packet.id)))]
        ELSE IF Len(packet.values) # Len(sensor.values)
        THEN [exit |-> "return", self |-> kept, current_row |-> current_row,
              ret |-> Some(Err(InvalidValueCount(Len(packet.values), Len(sensor.values))))]
        ELSE IF AlreadyInRow(current_row, sensor)
        THEN [exit |-> "row", self |-> kept, current_row |-> current_row, ret |-> None]
        ELSE packet_loop_retrying(d.self, PushValues(current_row, sensor, packet, 1))

\* A 'packet_loop that ends the row at a clashing packet without keeping
\* the packet.
RECURSIVE packet_loop_dropping(_, _)
packet_loop_dropping(self, current_row) ==
    LET d == next_packet(self)
        packet == d.item.val.val
        found == get_sensor_by_id(d.self.config, packet.id)
        sensor == found.val
    IN  IF d.item.tag = "None"
        THEN [exit |-> "row", self |-> d.self, current_row |-> current_row,
              ret |-> None]
        ELSE IF d.item.val.tag = "Err"
        THEN [exit |-> "return", self |-> d.self, current_row |-> current_row,
              ret |-> Some(Err(d.item.val.val))]
        ELSE IF found.tag = "None"
        THEN [exit |-> "return", self |-> d.self, current_row |-> current_row,
              ret |-> Some(Err(InvalidId(packet.id)))]
        ELSE IF Len(packet.values) # Len(sensor.values)
        THEN [exit |-> "return", self |-> d.self, current_row |-> current_row,
              ret |-> Some(Err(InvalidValueCount(Len(packet.values), Len(sensor.values))))]
        ELSE IF AlreadyInRow(current_row, sensor)
        THEN [exit |-> "row", self |-> d.self, current_row |-> current_row, ret |-> None]
        ELSE packet_loop_dropping(d.self, PushValues(current_row, sensor, packet, 1))

\* The 'packet_loop of TableGenerator::next.  exit is "return" when the loop
\* was left by a return statement (ret is what was returned), and "row" when
\* it was left by exhaustion or by break (the code after the loop runs).
RECURSIVE packet_loop(_, _)
packet_loop(self, current_row) ==
    LET step(d) ==
            LET packet == d.item.val.val
                found == get_sensor_by_id(d.self.config, packet.id)
                sensor == found.val
            IN  IF d.item.tag = "None"
                THEN [exit |-> "row", self |-> d.self, current_row |-> current_row,
                      ret |-> None]
                ELSE IF d.item.tag = "Panic"
                THEN [exit |-> "return", self |-> d.self, current_row |-> current_row,
                      ret |-> Panic]
                ELSE IF d.item.val.tag = "Err"
                THEN [exit |-> "return", self |-> d.self, current_row |-> current_row,
                      ret |-> Some(Err(d.item.val.val))]
                ELSE IF found.tag = "None"
                THEN [exit |-> "return", self |-> d.self, current_row |-> current_row,
                      ret |-> Some(Err(InvalidId(packet.id)))]
                ELSE IF Len(packet.values) # Len(sensor.values)
                THEN [exit |-> "return", self |-> d.self, current_row |-> current_row,
                      ret |-> Some(Err(InvalidValueCount(Len(packet.values), Len(sensor.values))))]
                ELSE IF AlreadyInRow(current_row, sensor)
                THEN [exit |-> "row",
                      self |-> [d.self EXCEPT !.packet_buf = Append(@, packet)],
                      current_row |-> current_row, ret |-> None]
                ELSE packet_loop(d.self, PushValues(current_row, sensor, packet, 1))
    IN  step(next_packet(self))

\* A projection that leaves out the columns the accumulator lacks.
RowOf_dense(cols, current_row) ==
    LET filled == SelectSeq(cols, LAMBDA c : c \in DOMAIN current_row)
    IN  [i \in 1..Len(filled) |-> Some(current_row[filled[i]])]

\* The projection of the accumulator onto the column list.
RowOf(cols, current_row) ==
    [i \in 1..Len(cols) |->
        IF cols[i] \in DOMAIN current_row THEN Some(current_row[cols[i]]) ELSE None]

\* A next that recomputes the column list from the row it has just built.
TableGenerator_next_recomputing(self) ==
    LET l == packet_loop(self, <<>>)
        kept == SelectSeq(l.self.columns, LAMBDA c : c \in DOMAIN l.current_row)
    IN  IF l.exit = "return" THEN [self |-> l.self, ret |-> l.ret]
        ELSE IF DOMAIN l.current_row = {}
        THEN [self |-> l.self, ret |-> None]
        ELSE [self |-> [l.self EXCEPT !.columns = kept],
              ret |-> Some(Ok(RowOf(kept, l.current_row)))]

\* A next that lays the row out over all columns of the configuration.
TableGenerator_next_all_columns(self) ==
    LET l == packet_loop(self, <<>>)
    IN  IF l.exit = "return" THEN [self |-> l.self, ret |-> l.ret]
        ELSE IF DOMAIN l.current_row = {}
        THEN [self |-> l.self, ret |-> None]
        ELSE [self |-> l.self, ret |-> Some(Ok(RowOf(columns(l.self.config), l.current_row)))]

\* A next without the check for an empty accumulator.
TableGenerator_next_no_empty_check(self) ==
    LET l == packet_loop(self, <<>>)
    IN  IF l.exit = "return" THEN [self |-> l.self, ret |-> l.ret]
        ELSE [self |-> l.self, ret |-> Some(Ok(RowOf(l.self.columns, l.current_row)))]

TableGenerator_next(self) ==
    LET after(l) ==
            IF l.exit = "return" THEN [self |-> l.self, ret |-> l.ret]
            ELSE IF DOMAIN l.current_row = {}
            THEN [self |-> l.self, ret |-> None]
            ELSE [self |-> l.self, ret |-> Some(Ok(RowOf(l.self.columns, l.current_row)))]
    IN  after(packet_loop(self, <<>>))

----------------------------------------------------------------------------
(* Value::to_string *)

IsZero(bits) == \A i \in 1..Len(bits) : bits[i] = 0

\* Long division of a bit pattern by ten: the quotient's bytes from the
\* i-th on, and the remainder, given the carry of the bytes before.
RECURSIVE DivTen(_, _, _)
DivTen(bits, i, carry) ==
    IF i > Len(bits) THEN [q |-> <<>>, r |-> carry]
    ELSE LET cur == carry * 256 + bits[i]
             rest == DivTen(bits, i + 1, cur % 10)
         IN  [q |-> <<cur \div 10>> \o rest.q, r |-> rest.r]

\* The decimal digits of an unsigned bit pattern, none for zero.
RECURSIVE Digits(_)
Digits(bits) ==
    IF IsZero(bits) THEN ""
    ELSE LET d == DivTen(bits, 1, 0) IN Digits(d.q) \o ToString(d.r)

UnsignedString(bits) == IF IsZero(bits) THEN "0" ELSE Digits(bits)

\* bits + 1 on the bytes up to the i-th, with wrap-around.
RECURSIVE PlusOne(_, _)
PlusOne(bits, i) ==
    IF i = 0 THEN bits
    ELSE IF bits[i] = 255 THEN PlusOne([bits EXCEPT ![i] = 0], i - 1)
    ELSE [bits EXCEPT ![i] = @ + 1]

\* The two's complement of a bit pattern.
Negate(bits) == PlusOne([i \in 1..Len(bits) |-> 255 - bits[i]], Len(bits))

SignedString(bits) ==
    IF bits[1] >= 128 THEN "-" \o UnsignedString(Negate(bits)) ELSE UnsignedString(bits)

\* format!("{:.8}", x) for the float bit patterns the model's inputs use.
FloatString(bits) ==
    CASE IsZero(bits) -> "0.00000000"
      [] bits \in {<<63, 128, 0, 0>>, <<63, 240, 0, 0, 0, 0, 0, 0>>} -> "1.00000000"
      [] bits \in {<<64, 0, 0, 0>>, <<64, 0, 0, 0, 0, 0, 0, 0>>} -> "2.00000000"
      [] bits \in {<<64, 64, 0, 0>>, <<64, 8, 0, 0, 0, 0, 0, 0>>} -> "3.00000000"
      [] bits \in {<<64, 128, 0, 0>>, <<64, 16, 0, 0, 0, 0, 0, 0>>} -> "4.00000000"
      [] bits \in {<<64, 160, 0, 0>>, <<64, 20, 0, 0, 0, 0, 0, 0>>} -> "5.00000000"
      [] bits \in {<<191, 128, 0, 0>>, <<191, 240, 0, 0, 0, 0, 0, 0>>} -> "-1.00000000"
      [] bits = <<66, 41, 174, 20>> -> "42.41999817"
      [] bits \in {<<127, 128, 0, 0>>, <<127, 240, 0, 0, 0, 0, 0, 0>>} -> "inf"
      [] bits \in {<<255, 128, 0, 0>>, <<255, 240, 0, 0, 0, 0, 0, 0>>} -> "-inf"
      [] bits \in {<<127, 192, 0, 0>>, <<127, 248, 0, 0, 0, 0, 0, 0>>} -> "NaN"

\* Value::to_string reads the union through the arm of value_kind.  Reading
\* an arm other than the one written is outside the method's safety
\* contract; `undefined` is what such a read yields.
to_string(value, value_kind, undefined) ==
    IF Len(value) # Width(value_kind) THEN undefined
    ELSE CASE value_kind \in {"Int8", "Int16", "Int32", "Int64"} -> SignedString(value)
           [] value_kind \in {"UInt8", "UInt16", "UInt32", "UInt64"} -> UnsignedString(value)
           [] value_kind \in {"Float32", "Float64"} -> FloatString(value)

----------------------------------------------------------------------------
(* CsvGenerator *)

csv_column_name(sensor, value) == sensor.name \o "_" \o value.name

RECURSIVE CsvSensorColumns(_, _)
CsvSensorColumns(sensor, i) ==
    IF i > Len(sensor.values) THEN <<>>
    ELSE <<csv_column_name(sensor, sensor.values[i])>> \o CsvSensorColumns(sensor, i + 1)

RECURSIVE CsvColumnsFrom(_, _)
CsvColumnsFrom(cfg, s) ==
    IF s > Len(cfg.sensors) THEN <<>>
    ELSE CsvSensorColumns(cfg.sensors[s], 1) \o CsvColumnsFrom(cfg, s + 1)

csv_columns(cfg) == CsvColumnsFrom(cfg, 1)

CsvGenerator_new(iter, cfg) ==
    [iter |-> iter, config |-> cfg, columns |-> csv_columns(cfg), is_first |-> TRUE,
     packet_buf |-> <<>>]

\* self.packet_buf if it holds a packet, the source iterator otherwise.
csv_next_packet(self) ==
    IF self.packet_buf = <<>>
    THEN LET drawn(r) == [item |-> r.item, self |-> [self EXCEPT !.iter = r.iter]]
         IN  drawn(IterNext(self.iter))
    ELSE [item |-> Some(Ok(Head(self.packet_buf))),
          self |-> [self EXCEPT !.packet_buf = Tail(self.packet_buf)]]

\* A clash check that never finds the sensor in the line being built.
CsvAlreadyInRow_never(current_row, sensor) == FALSE

\* current_row.contains_key(column_name(sensor, spec)) for some spec of the sensor
CsvAlreadyInRow(current_row, sensor) ==
    \E i \in 1..Len(sensor.values) :
        csv_column_name(sensor, sensor.values[i]) \in DOMAIN current_row

\* self.columns.join(",")
RECURSIVE Join(_, _)
Join(strs, sep) ==
    IF strs = <<>> THEN ""
    ELSE IF Len(strs) = 1 THEN strs[1]
    ELSE strs[1] \o sep \o Join(Tail(strs), sep)

\* The zip loop that inserts the packet's rendered values, from the i-th on.
RECURSIVE PushStrings(_, _, _, _, _)
PushStrings(current_row, sensor, packet, i, undefined) ==
    IF i > Len(sensor.values) \/ i > Len(packet.values) THEN current_row
    ELSE PushStrings(
            Insert(current_row, csv_column_name(sensor, sensor.values[i]),
                   to_string(packet.values[i], sensor.values[i].data_type, undefined)),
            sensor, packet, i + 1, undefined)

\* The 'packet_loop of CsvGenerator::next.
RECURSIVE csv_packet_loop(_, _, _)
csv_packet_loop(self, current_row, undefined) ==
    LET step(d) ==
            LET packet == d.item.val.val
                found == get_sensor_by_id(d.self.config, packet.id)
                sensor == found.val
            IN  IF d.item.tag = "None"
                THEN [exit |-> "row", self |-> d.self, current_row |-> current_row,
                      ret |-> None]
                ELSE IF d.item.tag = "Panic"
                THEN [exit |-> "return", self |-> d.self, current_row |-> current_row,
                      ret |-> Panic]
                ELSE IF d.item.val.tag = "Err"
                THEN [exit |-> "return", self |-> d.self, current_row |-> current_row,
                      ret |-> Some(Err(d.item.val.val))]
                ELSE IF found.tag = "None"
                THEN [exit |-> "return", self |-> d.self, current_row |-> current_row,
                      ret |-> Some(Err(InvalidId(packet.id)))]
                ELSE IF Len(packet.values) # Len(sensor.values)
                THEN [exit |-> "return", self |-> d.self, current_row |-> current_row,
                      ret |-> Some(Err(InvalidValueCount(Len(packet.values), Len(sensor.values))))]
                ELSE IF CsvAlreadyInRow(current_row, sensor)
                THEN [exit |-> "row",
                      self |-> [d.self EXCEPT !.packet_buf = Append(@, packet)],
                      current_row |-> current_row, ret |-> None]
                ELSE csv_packet_loop(d.self,
                                     PushStrings(current_row, sensor, packet, 1, undefined),
                                     undefined)
    IN  step(csv_next_packet(self))

\* A loop that writes nothing at all for a column without a value.
RECURSIVE WriteFields_skipping_empty(_, _, _)
WriteFields_skipping_empty(cols, current_row, i) ==
    IF i > Len(cols) THEN ""
    ELSE (IF cols[i] \in DOMAIN current_row THEN current_row[cols[i]] \o "," ELSE "")
         \o WriteFields_skipping_empty(cols, current_row, i + 1)

\* write!(result, "{},", value) or write!(result, ",") for each column from the i-th.
RECURSIVE WriteFields(_, _, _)
WriteFields(cols, current_row, i) ==
    IF i > Len(cols) THEN ""
    ELSE (IF cols[i] \in DOMAIN current_row THEN current_row[cols[i]] \o "," ELSE ",")
         \o WriteFields(cols, current_row, i + 1)

CsvGenerator_next(self, undefined) ==
    IF self.is_first
    THEN [self |-> [self EXCEPT !.is_first = FALSE],
          ret |-> Some(Ok(Join(self.columns, ",")))]
    ELSE LET written(l, result) ==
                 IF Len(result) = 0
                 THEN [self |-> l.self, ret |-> Panic]
                 ELSE [self |-> l.self,
                       ret |-> Some(Ok(SubSeq(result, 1, Len(result) - 1)))]
             after(l) ==
                 IF l.exit = "return" THEN [self |-> l.self, ret |-> l.ret]
                 ELSE IF DOMAIN l.current_row = {}
                 THEN [self |-> l.self, ret |-> None]
                 ELSE written(l, WriteFields(l.self.columns, l.current_row, 1))
         IN  after(csv_packet_loop(self, <<>>, undefined))

----------------------------------------------------------------------------
(* Inputs of the row engines *)

\* ids no configuration uses
UnknownIds == {9}

\* the error item an upstream iterator may yield in place of a packet
SourceError == InvalidId(200)

\* The byte-width table of the wire format.
SizeOf(kind) ==
    CASE kind \in {"Int8", "UInt8"} -> 1
      [] kind \in {"Int16", "UInt16"} -> 2
      [] kind \in {"Int32", "UInt32", "Float32"} -> 4
      [] kind \in {"Int64", "UInt64", "Float64"} -> 8

\* n as a w-byte bit pattern, most significant byte first (0 <= n < 256).
SmallBits(n, w) == [j \in 1..w |-> IF j = w THEN n ELSE 0]

\* The bit pattern of the float k.0 of the given width, for k in 1..5.
FloatBits(k, w) ==
    LET hi == CASE k = 1 -> <<63, 128>> [] k = 2 -> <<64, 0>> [] k = 3 -> <<64, 64>>
                [] k = 4 -> <<64, 128>> [] k = 5 -> <<64, 160>>
        hi64 == CASE k = 1 -> <<63, 240>> [] k = 2 -> <<64, 0>> [] k = 3 -> <<64, 8>>
                  [] k = 4 -> <<64, 16>> [] k = 5 -> <<64, 20>>
    IN  IF w = 4 THEN hi \o <<0, 0>> ELSE hi64 \o <<0, 0, 0, 0, 0, 0>>

\* The i-th value of the k-th upstream packet, written through the union arm
\* of `kind`: the float k.0, or the integer 16 * (i - 1) + k.  Distinct
\* positions of one column hold distinct values.
ValueAt(k, i, kind) ==
    IF kind \in {"Float32", "Float64"} THEN FloatBits(k, SizeOf(kind))
    ELSE SmallBits(16 * (i - 1) + k, SizeOf(kind))

\* A packet as a PacketParser with this sensor configuration would emit it.
SensorPacket(sensor, k) ==
    Packet(sensor.id,
           [i \in 1..Len(sensor.values) |-> ValueAt(k, i, sensor.values[i].data_type)])

\* The same packet with one value too many.
LongPacket(sensor, k) ==
    Packet(sensor.id, Append(SensorPacket(sensor, k).values, ValueAt(k, 8, "UInt8")))

\* What the k-th upstream item may be: a packet of a configured sensor, a
\* packet with one value too many, a packet with an unknown id, an error.
ItemsAt(cfg, k) ==
    {Ok(SensorPacket(cfg.sensors[s], k)) : s \in 1..Len(cfg.sensors)}
    \cup {Ok(LongPacket(cfg.sensors[1], k)), Err(SourceError)}
    \cup {Ok(Packet(id, <<ValueAt(k, 1, "UInt8")>>)) : id \in UnknownIds}

RECURSIVE UpstreamsOfLen(_, _)
UpstreamsOfLen(cfg, n) ==
    IF n = 0 THEN {<<>>}
    ELSE {Append(u, x) : u \in UpstreamsOfLen(cfg, n - 1), x \in ItemsAt(cfg, n)}

\* The packets of the crate's row-engine tests: (1.0, 1), (2.0, 2), (3.0, 3).
test_packets ==
    [k \in 1..3 |-> Packet(0, <<FloatBits(k, 4), SmallBits(k, 4)>>)]

\* The upstream Vecs of a configuration; for the test configuration also
\* the test's own packets, each mapped to Ok.
Upstreams(cfg) ==
    UNION {UpstreamsOfLen(cfg, n) : n \in 0..MaxPackets}
    \cup (IF cfg = TestConfig THEN {[k \in 1..3 |-> Ok(test_packets[k])]} ELSE {})

----------------------------------------------------------------------------
(* The row-engine specification: one configuration, one upstream Vec, and  *)
(* a consumer that calls next() on each generator.                         *)

\* next() may be called again after it returned None; the model stops two
\* calls after the longest run of Some results.
MaxCalls == MaxPackets + 2

Init ==
    /\ document \in Documents
    /\ config = load_config_str(document).val
    /\ config_out = None
    /\ upstream \in Upstreams(config)
    /\ table = TableGenerator_new(VecIter(upstream), config)
    /\ table_out = <<>>
    /\ csv = CsvGenerator_new(VecIter(upstream), config)
    /\ csv_out = <<>>
    /\ sent = <<>>
    /\ wire = <<>>
    /\ parser = PacketParser_new(wire, config)
    /\ parser_out = <<>>
    /\ tool_out = None

TableNext ==
    /\ Len(table_out) < MaxCalls
    /\ \A n \in 1..Len(table_out) : table_out[n].ret # Panic
    /\ LET r == TableGenerator_next(table)
       IN  /\ table' = r.self
           /\ table_out' = Append(table_out, r)
    /\ UNCHANGED <<document, config, config_out, upstream, csv, csv_out, sent, wire,
                 parser, parser_out, tool_out>>

\* What a read of a union arm that was not written may render as.
UndefinedStrings == {"0", "-1"}

\* The first call yields the header, so the CSV consumer gets one call more.
CsvNext ==
    /\ Len(csv_out) < MaxCalls + 1
    /\ \A n \in 1..Len(csv_out) : csv_out[n].ret # Panic
    /\ \E undefined \in UndefinedStrings :
         LET r == CsvGenerator_next(csv, undefined)
         IN  /\ csv' = r.self
             /\ csv_out' = Append(csv_out, r)
    /\ UNCHANGED <<document, config, config_out, upstream, table, table_out, sent, wire,
                 parser, parser_out, tool_out>>

Next == TableNext \/ CsvNext

Spec == Init /\ [][Next]_vars

----------------------------------------------------------------------------
(* The codec specification: one configuration, one byte stream, and a      *)
(* consumer that calls PacketParser::next until it panics or has seen the  *)
(* end of the stream twice.                                                *)

\* bytes a stream may hold where no well-formed packet is meant
RawBytes == {0, 1, 2, 3} \cup UnknownIds

\* The i-th value of a packet the flight computer sends, in two variants:
\* a float among 1.0 .. 4.0, or an integer all of whose bytes differ from
\* each other and from those of the packet's other values; the second
\* variant of an integer has its top bit set.
SentValue(variant, i, kind) ==
    IF kind \in {"Float32", "Float64"} THEN FloatBits(variant + i - 1, SizeOf(kind))
    ELSE [j \in 1..SizeOf(kind) |-> (IF variant = 2 THEN 128 ELSE 0) + 16 * i + j]

SentPacket(sensor, variant) ==
    Packet(sensor.id,
           [i \in 1..Len(sensor.values) |-> SentValue(variant, i, sensor.values[i].data_type)])

\* What the flight computer may write next: a stray byte or a whole packet.
Frames(cfg) ==
    {[kind |-> "byte", byte |-> b] : b \in RawBytes}
    \cup {[kind |-> "packet", packet |-> SentPacket(cfg.sensors[s], variant)] :
            s \in 1..Len(cfg.sensors), variant \in 1..2}

\* The bytes of a bit pattern in the configuration's byte order
\* (to_be_bytes, to_le_bytes).
ToWire(bits, endianess) ==
    IF endianess = "Big" THEN bits
    ELSE [j \in 1..Len(bits) |-> bits[Len(bits) + 1 - j]]

RECURSIVE EncodeValues(_, _, _)
EncodeValues(values, endianess, i) ==
    IF i > Len(values) THEN <<>>
    ELSE ToWire(values[i], endianess) \o EncodeValues(values, endianess, i + 1)

\* The wire format: the sensor id, then the values in declared order.
EncodeFrame(cfg, frame) ==
    IF frame.kind = "byte" THEN <<frame.byte>>
    ELSE <<frame.packet.id>> \o EncodeValues(frame.packet.values, cfg.endianess, 1)

RECURSIVE EncodeFrames(_, _, _)
EncodeFrames(cfg, frames, i) ==
    IF i > Len(frames) THEN <<>>
    ELSE EncodeFrame(cfg, frames[i]) \o EncodeFrames(cfg, frames, i + 1)

MaxParserCalls == MaxFrames + 2

ParserInit ==
    /\ document \in Documents
    /\ config = load_config_str(document).val
    /\ config_out = None
    /\ sent \in SeqsUpTo(Frames(config), MaxFrames)
    /\ wire = EncodeFrames(config, sent, 1)
    /\ parser = PacketParser_new(wire, config)
    /\ parser_out = <<>>
    /\ tool_out = None
    /\ upstream = <<>>
    /\ table = TableGenerator_new(VecIter(upstream), config)
    /\ table_out = <<>>
    /\ csv = CsvGenerator_new(VecIter(upstream), config)
    /\ csv_out = <<>>

ParserNext ==
    /\ Len(parser_out) < MaxParserCalls
    /\ \A n \in 1..Len(parser_out) : parser_out[n].ret # Panic
    /\ LET r == PacketParser_next(parser)
       IN  /\ parser' = r.self
           /\ parser_out' = Append(parser_out, r)
    /\ UNCHANGED <<document, config, config_out, upstream, table, table_out, csv, csv_out,
                 sent, wire, tool_out>>

ParserSpec == ParserInit /\ [][ParserNext]_vars

----------------------------------------------------------------------------
(* Vocabulary of the row-engine properties.  `out` is table_out or         *)
(* csv_out; call n is the n-th next() call of that generator.              *)

\* How many upstream items the generator had consumed after call n.
Consumed(out, n) == IF n = 0 THEN 0 ELSE Len(upstream) - Len(out[n].self.iter.items)

\* The lookahead buffer after call n.
BufAfter(out, n) == IF n = 0 THEN <<>> ELSE out[n].self.packet_buf

\* The items call n drew, in order: the buffered packets it started with,
\* then the upstream items it consumed.
Drawn(out, n) ==
    [i \in 1..Len(BufAfter(out, n - 1)) |-> Ok(BufAfter(out, n - 1)[i])]
    \o SubSeq(upstream, Consumed(out, n - 1) + 1, Consumed(out, n))

IsOkRow(ret) == ret.tag = "Some" /\ ret.val.tag = "Ok"

KnownId(item) == \E s \in 1..Len(config.sensors) : config.sensors[s].id = item.val.id

\* The sensor a packet belongs to: the first one declared with its id.
SensorOf(item) ==
    config.sensors[Min({s \in 1..Len(config.sensors) : config.sensors[s].id = item.val.id})]

IsValid(item) ==
    /\ item.tag = "Ok"
    /\ KnownId(item)
    /\ Len(item.val.values) = Len(SensorOf(item).values)

ColumnNames(sensor) ==
    {sensor.name \o "_" \o sensor.values[i].name : i \in 1..Len(sensor.values)}

\* Item j of the drawn items is a valid packet whose sensor has a column
\* that an earlier item of the same call already filled.
Clashes(D, j) ==
    /\ IsValid(D[j])
    /\ \E k \in 1..(j - 1) :
         IsValid(D[k]) /\ ColumnNames(SensorOf(D[k])) \cap ColumnNames(SensorOf(D[j])) # {}

\* Declared order: the sensor and value index behind column c.
NumColumns == Len(columns(config))

RECURSIVE OwnerFrom(_, _)
OwnerFrom(c, s) ==
    IF c <= Len(config.sensors[s].values) THEN <<s, c>>
    ELSE OwnerFrom(c - Len(config.sensors[s].values), s + 1)

Owner(c) == OwnerFrom(c, 1)

NameOfColumn(c) ==
    LET o == Owner(c)
    IN  config.sensors[o[1]].name \o "_" \o config.sensors[o[1]].values[o[2]].name

UniqueColumns == \A c, d \in 1..NumColumns : c # d => NameOfColumn(c) # NameOfColumn(d)

\* The places <<k, i>> among the first m drawn items that fill the column
\* called `name`: value i of packet k.
Fillers(D, m, name) ==
    {<<k, i>> \in (1..m) \X (1..8) :
        /\ IsValid(D[k])
        /\ i <= Len(D[k].val.values)
        /\ SensorOf(D[k]).name \o "_" \o SensorOf(D[k]).values[i].name = name}

Latest(hits) ==
    CHOOSE h \in hits : \A g \in hits : g[1] < h[1] \/ (g[1] = h[1] /\ g[2] <= h[2])

\* The slot of the column called `name` in a row built from the first m
\* drawn items.
ExpectedSlot(D, m, name) ==
    LET hits == Fillers(D, m, name)
        h == Latest(hits)
    IN  IF hits = {} THEN None
        ELSE Some([value |-> D[h[1]].val.values[h[2]],
                   value_kind |-> SensorOf(D[h[1]]).values[h[2]].data_type])

ExpectedRow(D, m) == [c \in 1..NumColumns |-> ExpectedSlot(D, m, NameOfColumn(c))]

\* The rendering of a value that was written through the arm of its kind.
Rendered(tv) == to_string(tv.value, tv.value_kind, "")

ExpectedField(slot) == IF slot.tag = "None" THEN "" ELSE Rendered(slot.val)

ExpectedLine(D, m) ==
    Join([c \in 1..NumColumns |-> ExpectedField(ExpectedSlot(D, m, NameOfColumn(c)))], ",")

----------------------------------------------------------------------------
(* Properties of the row engines, checked under Spec *)

\* What C1 says of one generator; `expected` is the row or line a call
\* owes for the first m drawn items.
RowBoundary(out, expected(_, _)) ==
    \A n \in 1..Len(out) :
        LET D == Drawn(out, n)
        IN  \A j \in 1..Len(D) :
                Clashes(D, j) =>
                    /\ j = Len(D)
                    /\ BufAfter(out, n) = <<D[j].val>>
                    /\ out[n].ret = Some(Ok(expected(D, j - 1)))
                    /\ n < Len(out) =>
                         LET E == Drawn(out, n + 1)
                         IN  /\ E[1] = D[j]
                             /\ IsOkRow(out[n + 1].ret) =>
                                  \E m \in 1..Len(E) : out[n + 1].ret = Some(Ok(expected(E, m)))

\* C1: when a drawn packet's sensor already has a column in the row being
\* built, the packet is not merged: it is the last item the call draws, it
\* becomes the content of the lookahead buffer, the call returns the row of
\* the items before it, and the following call draws it first and builds
\* its row from it onwards.  TableGenerator and CsvGenerator alike.
C1_RowBoundary ==
    /\ RowBoundary(table_out, ExpectedRow)
    /\ RowBoundary(csv_out, ExpectedLine)

Deferral(out) ==
    \E n \in 1..(Len(out) - 1) :
        /\ Len(Drawn(out, n)) >= 2
        /\ Clashes(Drawn(out, n), Len(Drawn(out, n)))
        /\ IsOkRow(out[n + 1].ret)

C1_Witness == Deferral(table_out) /\ Deferral(csv_out)

AllValid == \A k \in 1..Len(upstream) : IsValid(upstream[k])

Finished(out) == Len(out) > 0 /\ out[Len(out)].ret = None

\* The column of value i of the sensor declared s-th.
RECURSIVE ColumnIndex(_, _)
ColumnIndex(s, i) == IF s = 1 THEN i ELSE Len(config.sensors[s - 1].values) + ColumnIndex(s - 1, i)

SensorIndexOf(item) ==
    Min({s \in 1..Len(config.sensors) : config.sensors[s].id = item.val.id})

\* The calls whose row holds value i of upstream packet k in its column.
RowsHolding(k, i) ==
    {n \in 1..Len(table_out) :
        /\ IsOkRow(table_out[n].ret)
        /\ Len(table_out[n].ret.val.val) = NumColumns
        /\ table_out[n].ret.val.val[ColumnIndex(SensorIndexOf(upstream[k]), i)]
             = Some([value |-> upstream[k].val.values[i],
                     value_kind |-> SensorOf(upstream[k]).values[i].data_type])}

\* C2: over unique column names, once TableGenerator::next has returned
\* None for an upstream of valid packets, every value of every packet is in
\* exactly one row, in its own column, all values of a packet are in the
\* same row, and a packet that arrived earlier is in no later row than a
\* packet that arrived after it.
C2_LosslessMonotonic ==
    (UniqueColumns /\ AllValid /\ Finished(table_out)) =>
        /\ \A k \in 1..Len(upstream) : \A i \in 1..Len(upstream[k].val.values) :
             /\ Cardinality(RowsHolding(k, i)) = 1
             /\ RowsHolding(k, i) = RowsHolding(k, 1)
        /\ \A k, q \in 1..Len(upstream) :
             (k < q /\ upstream[k].val.values # <<>> /\ upstream[q].val.values # <<>>) =>
                 \A n \in RowsHolding(k, 1), r \in RowsHolding(q, 1) : n <= r

C2_Witness ==
    /\ UniqueColumns /\ AllValid /\ Finished(table_out)
    /\ Len(upstream) >= 3
    /\ \E n \in 1..Len(table_out) : Len(Drawn(table_out, n)) = 3
    /\ \E n \in 1..Len(table_out) :
         IsOkRow(table_out[n].ret) /\ Len(Drawn(table_out, n)) = 1

\* How many of the items call n drew went into its row: all of them but a
\* packet left in the lookahead buffer.
Merged(out, n) == Len(Drawn(out, n)) - Len(BufAfter(out, n))

\* C3: a row TableGenerator::next returns has one slot per configured
\* column, in declared order (sensors, then each sensor's values); the slot
\* of a column is empty exactly when no packet of the call has a column of
\* that name, and otherwise holds the value, with its declared kind, that a
\* packet of the call gives for that column.
C3_FixedRowLayout ==
    \A n \in 1..Len(table_out) :
        IsOkRow(table_out[n].ret) =>
            LET row == table_out[n].ret.val.val
                D == Drawn(table_out, n)
            IN  /\ Len(row) = NumColumns
                /\ \A c \in 1..NumColumns :
                     row[c] = ExpectedSlot(D, Merged(table_out, n), NameOfColumn(c))

C3_Witness ==
    \E n \in 1..Len(table_out) :
        /\ IsOkRow(table_out[n].ret)
        /\ \E c, d \in 1..NumColumns :
             /\ table_out[n].ret.val.val[c] = None
             /\ table_out[n].ret.val.val[d] # None

\* C4: the lookahead buffer of a TableGenerator and of a CsvGenerator never
\* holds more than one packet.
C4_SingleSlotLookahead ==
    /\ Len(table.packet_buf) <= 1
    /\ Len(csv.packet_buf) <= 1

C4_Witness == Len(table.packet_buf) = 1 /\ Len(csv.packet_buf) = 1

\* What C5 says of one generator.
ErrorPropagated(out) ==
    \A n \in 1..Len(out) :
        LET D == Drawn(out, n)
        IN  \A j \in 1..Len(D) :
                D[j].tag = "Err" => (j = Len(D) /\ out[n].ret = Some(Err(D[j].val)))

\* C5: a next() call of either generator that draws an error from upstream
\* draws nothing after it and returns that very error.
C5_UpstreamErrorPropagation ==
    /\ ErrorPropagated(table_out)
    /\ ErrorPropagated(csv_out)

ErrorAfterPacket(out) ==
    \E n \in 1..Len(out) :
        /\ Len(Drawn(out, n)) >= 2
        /\ Drawn(out, n)[Len(Drawn(out, n))].tag = "Err"
        /\ Consumed(out, n) < Len(upstream)

C5_Witness == ErrorAfterPacket(table_out) /\ ErrorAfterPacket(csv_out)

\* What C6 says of one generator.
PacketValidated(out) ==
    \A n \in 1..Len(out) :
        /\ \A i \in 1..Len(BufAfter(out, n)) : IsValid(Ok(BufAfter(out, n)[i]))
        /\ LET D == Drawn(out, n)
           IN  \A j \in 1..Len(D) :
                   (D[j].tag = "Ok" /\ ~IsValid(D[j])) =>
                       /\ j = Len(D)
                       /\ BufAfter(out, n) = <<>>
                       /\ out[n].ret =
                            IF ~KnownId(D[j])
                            THEN Some(Err([kind |-> "InvalidId", id |-> D[j].val.id]))
                            ELSE Some(Err([kind |-> "InvalidValueCount",
                                           expected |-> Len(SensorOf(D[j]).values),
                                           actual |-> Len(D[j].val.values)]))

\* C6: a drawn packet whose id no sensor has makes the call return
\* InvalidId(id); one whose id is known but whose value count differs from
\* the sensor's makes it return InvalidValueCount with expected = the
\* configured count and actual = the packet's count; either way nothing is
\* drawn after it, no row is returned by the call and the packet is not put
\* into the lookahead buffer, which only ever holds valid packets.
C6_PacketValidation ==
    /\ PacketValidated(table_out)
    /\ PacketValidated(csv_out)

Rejected(out, known, drawn) ==
    \E n \in 1..Len(out) :
        LET D == Drawn(out, n)
        IN  /\ Len(D) >= drawn
            /\ D[Len(D)].tag = "Ok"
            /\ ~IsValid(D[Len(D)])
            /\ KnownId(D[Len(D)]) = known

C6_Witness ==
    /\ Rejected(table_out, TRUE, 2) /\ Rejected(table_out, FALSE, 1)
    /\ Rejected(csv_out, TRUE, 2) /\ Rejected(csv_out, FALSE, 1)

----------------------------------------------------------------------------
(* Vocabulary of the codec properties; call n is the n-th                  *)
(* PacketParser::next call.                                                *)

\* The bytes not yet read when call n starts, and when it has ended.
ReaderBefore(n) == IF n = 1 THEN wire ELSE parser_out[n - 1].self.reader
ReaderAfter(n) == parser_out[n].self.reader

ConfiguredId(b) == \E s \in 1..Len(config.sensors) : config.sensors[s].id = b

\* The sensor an id byte selects: the first one declared with that id.
SensorOfId(b) ==
    config.sensors[Min({s \in 1..Len(config.sensors) : config.sensors[s].id = b})]

RECURSIVE SizeOfValues(_, _)
SizeOfValues(value_configs, i) ==
    IF i = 0 THEN 0
    ELSE SizeOf(value_configs[i].data_type) + SizeOfValues(value_configs, i - 1)

\* The length of a packet of the sensor on the wire.
PacketSize(sensor) == 1 + SizeOfValues(sensor.values, Len(sensor.values))

\* Call n starts on an id byte of a configured sensor with fewer bytes left
\* than that sensor's packet has.
Truncated(n) ==
    /\ ReaderBefore(n) # <<>>
    /\ ConfiguredId(ReaderBefore(n)[1])
    /\ Len(ReaderBefore(n)) < PacketSize(SensorOfId(ReaderBefore(n)[1]))

IsError(ret) == ret.tag = "Some" /\ ret.val.tag = "Err"

----------------------------------------------------------------------------
(* Properties of the codec, checked under ParserSpec *)

\* C7: a stream that ends after a valid id byte and before the last value
\* byte of that sensor makes PacketParser::next return an explicit decode
\* error, and no call ends in a panic.
C7_TruncationIsAnError ==
    \A n \in 1..Len(parser_out) :
        /\ parser_out[n].ret # Panic
        /\ Truncated(n) => IsError(parser_out[n].ret)

C9_UsableAfterInvalidId ==
    \A n \in 1..Len(parser_out) :
        (ReaderBefore(n) # <<>> /\ ~ConfiguredId(ReaderBefore(n)[1])) =>
            /\ parser_out[n].ret = Some(Err([kind |-> "InvalidId", id |-> ReaderBefore(n)[1]]))
            /\ \A m \in (n + 1)..Len(parser_out) : parser_out[m].ret # Panic

\* The bytes of value i of a packet of the sensor lie behind this many bytes.
Offset(sensor, i) == 1 + SizeOfValues(sensor.values, i - 1)

\* Every frame sent is a packet of a sensor that its id selects.
OnlyPackets ==
    \A k \in 1..Len(sent) :
        /\ sent[k].kind = "packet"
        /\ Len(sent[k].packet.values) = Len(SensorOfId(sent[k].packet.id).values)
        /\ \A i \in 1..Len(sent[k].packet.values) :
             Len(sent[k].packet.values[i])
               = SizeOf(SensorOfId(sent[k].packet.id).values[i].data_type)

\* C10: a call that returns a packet has consumed the id byte and the bytes
\* of the sensor's values, no more and no less; the packet has the id byte
\* as its id and one value per declared value, value i being the bytes at
\* the i-th value's place read in the configuration's byte order.  Hence a
\* stream of well-formed packets decodes to those packets, in order, and
\* then ends.
C10_PacketFraming ==
    /\ \A n \in 1..Len(parser_out) :
         (parser_out[n].ret.tag = "Some" /\ parser_out[n].ret.val.tag = "Ok") =>
             LET r == ReaderBefore(n)
                 p == parser_out[n].ret.val.val
                 sensor == SensorOfId(r[1])
             IN  /\ p.id = r[1]
                 /\ ReaderAfter(n) = SubSeq(r, PacketSize(sensor) + 1, Len(r))
                 /\ Len(r) - Len(ReaderAfter(n)) = PacketSize(sensor)
                 /\ Len(p.values) = Len(sensor.values)
                 /\ \A i \in 1..Len(sensor.values) :
                      ToWire(p.values[i], config.endianess)
                        = SubSeq(r, Offset(sensor, i) + 1,
                                 Offset(sensor, i) + SizeOf(sensor.values[i].data_type))
    /\ OnlyPackets =>
         \A n \in 1..Len(parser_out) :
             parser_out[n].ret = IF n <= Len(sent) THEN Some(Ok(sent[n].packet)) ELSE None

C10_Witness ==
    /\ OnlyPackets
    /\ Len(sent) >= 3
    /\ Len(parser_out) > Len(sent)
    /\ \E k \in 1..Len(sent) : Len(sent[k].packet.values) >= 2
    /\ \E k, q \in 1..Len(sent) : sent[k].packet.id # sent[q].packet.id

\* The byte order the document asks for: the one it states, Big when it
\* states none.
DeclaredOrder == IF document.endianess = None THEN "Big" ELSE document.endianess.val

\* The bits, most significant byte first, of a value whose bytes arrive in
\* the given order.
MostSignificantFirst(bytes, order) ==
    IF order = "Big" THEN bytes ELSE [j \in 1..Len(bytes) |-> bytes[Len(bytes) + 1 - j]]

IsOkPacket(ret) == ret.tag = "Some" /\ ret.val.tag = "Ok"

\* The bytes of value i of the packet that call n decoded.
WireBytes(n, i) ==
    LET sensor == SensorOfId(ReaderBefore(n)[1])
    IN  SubSeq(ReaderBefore(n), Offset(sensor, i) + 1,
               Offset(sensor, i) + SizeOf(sensor.values[i].data_type))

\* C11: every value of every decoded packet is read in the one byte order
\* the configuration document asks for: most significant byte first for
\* Big, least significant byte first for Little, and Big for a document
\* that states no byte order.
C11_GlobalByteOrder ==
    \A n \in 1..Len(parser_out) :
        IsOkPacket(parser_out[n].ret) =>
            \A i \in 1..Len(parser_out[n].ret.val.val.values) :
                parser_out[n].ret.val.val.values[i]
                  = MostSignificantFirst(WireBytes(n, i), DeclaredOrder)

\* Call n decoded a packet with a multi-byte value that reads differently
\* in the two byte orders.
OrderMatters(n) ==
    /\ IsOkPacket(parser_out[n].ret)
    /\ \E i \in 1..Len(parser_out[n].ret.val.val.values) :
         /\ Len(WireBytes(n, i)) >= 2
         /\ MostSignificantFirst(WireBytes(n, i), "Little") # WireBytes(n, i)

C11_Witness ==
    /\ document.endianess = Some("Little")
    /\ \E n, m \in 1..Len(parser_out) :
         /\ n # m /\ OrderMatters(n) /\ OrderMatters(m)
         /\ parser_out[n].ret.val.val.id # parser_out[m].ret.val.val.id

----------------------------------------------------------------------------
(* The value specification: one value kind, one byte order, one byte       *)
(* pattern of the kind's width, and a single read_value call on it.        *)

ValueKinds ==
    {"Int8", "Int16", "Int32", "Int64", "UInt8", "UInt16", "UInt32", "UInt64",
     "Float32", "Float64"}

\* Bytes that are all zeros, all ones, the ends of the signed range, and the
\* top bytes of the float infinities and NaNs.
EdgeBytes == {0, 1, 127, 128, 192, 240, 248, 255}

\* The byte patterns of a width: all of them for one byte, all over the
\* edge bytes for two and four, and for eight bytes two edge bytes at
\* either end of a uniform or a counting filling.
Patterns(w) ==
    IF w = 1 THEN [1..1 -> 0..255]
    ELSE IF w = 2 THEN [1..2 -> EdgeBytes]
    ELSE IF w = 4 THEN [1..4 -> EdgeBytes \ {240, 248}]
    ELSE LET fillings == {<<0, 0, 0, 0, 0, 0>>, <<255, 255, 255, 255, 255, 255>>,
                          <<3, 4, 5, 6, 7, 8>>, <<0, 0, 0, 0, 0, 1>>}
             ends == [1..2 -> EdgeBytes \ {192}]
         IN  {e \o f : e \in ends, f \in fillings} \cup {f \o e : e \in ends, f \in fillings}

\* A configuration with one sensor of one value.
OneValueConfig(kind, endianess) ==
    RocketConfig("value", << SensorConfig("s", 0, << ValueConfig("v", kind) >>) >>, endianess)

\* bytes that may follow the value in the reader
Trailers == {<<>>, <<170>>}

ValueInit ==
    /\ \E kind \in ValueKinds, endianess \in {"Big", "Little"} :
         /\ document = DocumentOf(OneValueConfig(kind, endianess), TRUE)
         /\ \E bytes \in Patterns(SizeOf(kind)), trailer \in Trailers :
              wire = bytes \o trailer
    /\ config = load_config_str(document).val
    /\ config_out = None
    /\ sent = <<>>
    /\ parser = PacketParser_new(wire, config)
    /\ parser_out = <<>>
    /\ tool_out = None
    /\ upstream = <<>>
    /\ table = TableGenerator_new(VecIter(upstream), config)
    /\ table_out = <<>>
    /\ csv = CsvGenerator_new(VecIter(upstream), config)
    /\ csv_out = <<>>

\* One call of read_value for the configured value; ret is the Value or the
\* I/O error it returned.
ReadValue ==
    /\ parser_out = <<>>
    /\ LET r == read_value(parser, parser.config.sensors[1].values[1])
       IN  /\ parser' = IF r.tag = "Ok" THEN r.val.self ELSE parser
           /\ parser_out' = <<[ret |-> IF r.tag = "Ok" THEN Ok(r.val.value) ELSE r,
                               self |-> parser']>>
    /\ UNCHANGED <<document, config, config_out, upstream, table, table_out, csv, csv_out,
                   sent, wire, tool_out>>

ValueSpec == ValueInit /\ [][ReadValue]_vars

\* The kind and the width of the one configured value.
TheKind == config.sensors[1].values[1].data_type

----------------------------------------------------------------------------
(* The configuration specification: a configuration whose sensor ids are   *)
(* drawn freely, and one call of validate or of get_sensor_by_id on it.    *)

\* ids a sensor may be given, the ends of the byte range among them
SensorIds == {0, 4, 7, 255}

\* The sensors of the crate's configuration tests: sensor_1, sensor_2, ...
\* without values, each with one of the ids.
SensorLists ==
    UNION {[1..n -> SensorIds] : n \in 0..MaxSensors}

SensorDocument(ids) ==
    Document("test",
             [i \in 1..Len(ids) |-> SensorConfig("sensor_" \o ToString(i), ids[i], <<>>)],
             None)

ConfigInit ==
    /\ \E ids \in SensorLists : document = SensorDocument(ids)
    /\ config = load_config_str(document).val
    /\ config_out = None
    /\ sent = <<>>
    /\ wire = <<>>
    /\ parser = PacketParser_new(wire, config)
    /\ parser_out = <<>>
    /\ tool_out = None
    /\ upstream = <<>>
    /\ table = TableGenerator_new(VecIter(upstream), config)
    /\ table_out = <<>>
    /\ csv = CsvGenerator_new(VecIter(upstream), config)
    /\ csv_out = <<>>

Validate ==
    /\ config_out = None
    /\ LET r == validate(config)
       IN  /\ config' = r.self
           /\ config_out' = [op |-> "validate", args |-> <<>>, ret |-> r.ret, self |-> r.self]
    /\ UNCHANGED <<document, upstream, table, table_out, csv, csv_out, sent, wire, parser,
                   parser_out, tool_out>>

GetSensorById ==
    /\ config_out = None
    /\ \E id \in 0..255 :
         config_out' = [op |-> "get_sensor_by_id", args |-> <<id>>,
                        ret |-> get_sensor_by_id(config, id), self |-> config]
    /\ UNCHANGED <<document, config, upstream, table, table_out, csv, csv_out, sent, wire,
                   parser, parser_out, tool_out>>

ConfigNext == Validate \/ GetSensorById

ConfigSpec == ConfigInit /\ [][ConfigNext]_vars

\* The places of the sensors that have the id.
SensorsWithId(id) == {i \in 1..Len(document.sensors) : document.sensors[i].id = id}

SharedId == \E id \in 0..255 : Cardinality(SensorsWithId(id)) >= 2

Called(op) == config_out # None /\ config_out.op = op

\* C13: validate returns an error exactly when two sensors of the
\* configuration have the same id, Ok(()) otherwise (also for no sensors),
\* and leaves the configuration as it was loaded.
C13_ValidateDuplicateIds ==
    Called("validate") =>
        /\ config_out.ret.tag = "Err" <=> SharedId
        /\ ~SharedId => config_out.ret = Ok(<<>>)
        /\ config_out.self = load_config_str(document).val
        /\ config = load_config_str(document).val

C13_Witness ==
    /\ Called("validate")
    /\ config_out.ret.tag = "Err"
    /\ Len(config.sensors) = 3
    /\ config.sensors[1].id = config.sensors[3].id
    /\ config.sensors[1].id # config.sensors[2].id

\* C14: get_sensor_by_id(id) returns none exactly when no sensor has the
\* id; otherwise it returns a configured sensor with that id, which is the
\* one sensor that has it whenever the ids are distinct.
C14_GetSensorById ==
    Called("get_sensor_by_id") =>
        LET id == config_out.args[1]
            hits == SensorsWithId(id)
        IN  /\ config_out.ret = None <=> hits = {}
            /\ hits # {} =>
                 /\ config_out.ret.tag = "Some"
                 /\ config_out.ret.val.id = id
                 /\ \E i \in hits : config_out.ret.val = document.sensors[i]
            /\ Cardinality(hits) = 1 =>
                 \A i \in hits : config_out.ret = Some(document.sensors[i])

C14_Witness ==
    /\ Called("get_sensor_by_id")
    /\ config_out.args = <<4>>
    /\ Len(config.sensors) = 3
    /\ config.sensors[1].id = 255 /\ config.sensors[2].id = 0 /\ config.sensors[3].id = 4
    /\ config_out.ret = Some(config.sensors[3])

----------------------------------------------------------------------------
(* Properties of loading, checked under ParserSpec *)

\* C15: a document in which two sensors share an id is turned down when it
\* is loaded, so that no PacketParser, TableGenerator or CsvGenerator is
\* ever at work with a configuration in which two sensors share an id.
C15_DuplicateIdsRejectedAtLoad ==
    (parser_out # <<>> \/ table_out # <<>> \/ csv_out # <<>>) =>
        /\ ~SharedId
        /\ \A i, j \in 1..Len(parser.config.sensors) :
             i # j => parser.config.sensors[i].id # parser.config.sensors[j].id

----------------------------------------------------------------------------
(* Further properties of the row engines, checked under Spec *)

\* The column names in declared order: sensors as declared, and each
\* sensor's values as declared.
DeclaredColumns == [c \in 1..NumColumns |-> NameOfColumn(c)]

\* C16: the column list of a TableGenerator is the list derived from the
\* configuration at construction, the names in declared order, and
\* column_names() returns it before and after every next() call; no next()
\* call changes the generator's column list or its configuration.
C16_ColumnsImmutable ==
    LET initial == column_names(TableGenerator_new(VecIter(upstream), config))
    IN  /\ initial = DeclaredColumns
        /\ column_names(table) = initial
        /\ table.config = config
        /\ \A n \in 1..Len(table_out) :
             /\ column_names(table_out[n].self) = initial
             /\ table_out[n].self.config = config

C16_Witness ==
    /\ Len(table_out) >= 3
    /\ NumColumns >= 2
    /\ table_out[Len(table_out)].ret = None
    /\ \E n \in 1..Len(table_out) :
         /\ IsOkRow(table_out[n].ret)
         /\ \E c \in 1..NumColumns : table_out[n].ret.val.val[c] = None
    /\ \E n \in 1..Len(table_out) : IsError(table_out[n].ret)

\* Every upstream item is a valid packet of one and the same sensor, which
\* declares at least one value.
SingleSensor ==
    /\ AllValid
    /\ \A k \in 1..Len(upstream) :
         /\ SensorIndexOf(upstream[k]) = SensorIndexOf(upstream[1])
         /\ Len(SensorOf(upstream[k]).values) >= 1

\* The row that holds a packet's values in its sensor's columns and nothing
\* in the others.
RowOfPacket(item) ==
    [c \in 1..NumColumns |->
        IF Owner(c)[1] = SensorIndexOf(item)
        THEN Some([value |-> item.val.values[Owner(c)[2]],
                   value_kind |-> SensorOf(item).values[Owner(c)[2]].data_type])
        ELSE None]

LineOfPacket(item) ==
    Join([c \in 1..NumColumns |-> ExpectedField(RowOfPacket(item)[c])], ",")

\* The lines the CSV of the three test packets is made of.
TestCsv == <<"test_value,test_value2", "1.00000000,1", "2.00000000,2", "3.00000000,3">>

SpecScenario ==
    /\ config.sensors = TestConfig.sensors
    /\ upstream = [k \in 1..3 |->
                     Ok([id |-> 0, values |-> <<FloatBits(k, 4), <<0, 0, 0, k>> >>])]

\* C17: over unique column names, when all upstream packets are packets of
\* one sensor with at least one value, the k-th next() call of a
\* TableGenerator returns the row of packet k alone and the calls after the
\* last packet return None; a CsvGenerator returns the header, then the
\* line of packet k on call k + 1, then None.  For the packets (1.0, 1),
\* (2.0, 2), (3.0, 3) of sensor "test" the lines are those of TestCsv.
C17_OneRowPerPacket ==
    (UniqueColumns /\ SingleSensor) =>
        /\ \A n \in 1..Len(table_out) :
             table_out[n].ret = IF n <= Len(upstream)
                                THEN Some(Ok(RowOfPacket(upstream[n]))) ELSE None
        /\ \A n \in 1..Len(csv_out) :
             csv_out[n].ret = IF n = 1 THEN Some(Ok(Join(DeclaredColumns, ",")))
                              ELSE IF n - 1 <= Len(upstream)
                              THEN Some(Ok(LineOfPacket(upstream[n - 1]))) ELSE None
        /\ SpecScenario =>
             \A n \in 1..Len(csv_out) :
                 csv_out[n].ret = IF n <= 4 THEN Some(Ok(TestCsv[n])) ELSE None

C17_Witness ==
    /\ SpecScenario
    /\ Len(table_out) = 4 /\ table_out[4].ret = None
    /\ Len(csv_out) = 5 /\ csv_out[5].ret = None
    /\ csv_out[4].ret = Some(Ok("3.00000000,3"))

\* Two sensors of one column each, and three valid packets: one of a
\* sensor, one of the other sensor, one of the first sensor again.
SparseScenario ==
    /\ Len(config.sensors) = 2
    /\ \A s \in 1..2 : Len(config.sensors[s].values) = 1
    /\ config.sensors[1].id # config.sensors[2].id
    /\ UniqueColumns
    /\ Len(upstream) = 3
    /\ AllValid
    /\ SensorIndexOf(upstream[1]) # SensorIndexOf(upstream[2])
    /\ SensorIndexOf(upstream[3]) = SensorIndexOf(upstream[1])

\* The one value of a packet with the kind its sensor declares.
OnlyValue(item) ==
    [value |-> item.val.values[1], value_kind |-> SensorOf(item).values[1].data_type]

\* The two rows of the scenario: column s is the column of sensor s.
SparseRows ==
    << [c \in 1..2 |-> IF c = SensorIndexOf(upstream[1]) THEN Some(OnlyValue(upstream[1]))
                       ELSE Some(OnlyValue(upstream[2]))],
       [c \in 1..2 |-> IF c = SensorIndexOf(upstream[1]) THEN Some(OnlyValue(upstream[3]))
                       ELSE None] >>

SparseLine(r) == Join([c \in 1..2 |-> ExpectedField(SparseRows[r][c])], ",")

\* C18: with two sensors A and B of one column each and the upstream
\* packets A, B, A, a TableGenerator returns the row with the first A value
\* and the B value, then the row with the second A value and an empty B
\* slot, then None; a CsvGenerator returns the same two rows as lines after
\* the header, then None.
C18_SparseRowScenario ==
    SparseScenario =>
        /\ \A n \in 1..Len(table_out) :
             table_out[n].ret = IF n <= 2 THEN Some(Ok(SparseRows[n])) ELSE None
        /\ \A n \in 2..Len(csv_out) :
             csv_out[n].ret = IF n <= 3 THEN Some(Ok(SparseLine(n - 1))) ELSE None

C18_Witness ==
    /\ SparseScenario
    /\ Len(table_out) >= 3 /\ table_out[3].ret = None
    /\ Len(csv_out) >= 4 /\ csv_out[4].ret = None
    /\ csv_out[3].ret = Some(Ok("3,"))

\* How many separators a line has from its i-th character on.
RECURSIVE Separators(_, _)
Separators(line, i) ==
    IF i > Len(line) THEN 0
    ELSE (IF SubSeq(line, i, i) = "," THEN 1 ELSE 0) + Separators(line, i + 1)

Header == Join(DeclaredColumns, ",")

\* C19: the first next() call of a CsvGenerator returns the header, the
\* column names joined by ",", and draws nothing from upstream, whatever
\* upstream holds; no later call returns the header again; every line a
\* later call returns has one field per column in column order, the
\* rendering of the slot's value or nothing for an empty slot, and so has
\* one separator less than there are columns.
C19_CsvLineStructure ==
    /\ csv_out # <<>> =>
         /\ csv_out[1].ret = Some(Ok(Header))
         /\ Consumed(csv_out, 1) = 0
         /\ BufAfter(csv_out, 1) = <<>>
    /\ \A n \in 2..Len(csv_out) :
         /\ csv_out[n].ret # Some(Ok(Header))
         /\ IsOkRow(csv_out[n].ret) =>
              /\ Len(Drawn(csv_out, n)) >= 1
              /\ csv_out[n].ret.val.val
                   = ExpectedLine(Drawn(csv_out, n), Merged(csv_out, n))
              /\ Separators(csv_out[n].ret.val.val, 1) = NumColumns - 1

C19_Witness ==
    /\ upstream # <<>> /\ upstream[1].tag = "Err"
    /\ Len(csv_out) >= 3
    /\ IsError(csv_out[2].ret)
    /\ NumColumns >= 2
    /\ IsOkRow(csv_out[3].ret)
    /\ \E c \in 1..NumColumns :
         ExpectedSlot(Drawn(csv_out, 3), Merged(csv_out, 3), NameOfColumn(c)) = None

----------------------------------------------------------------------------
(* The restriction specification: the row-engine inputs of Spec, and a     *)
(* consumer of the TableGenerator that may restrict its columns once,      *)
(* before or between its next() calls.                                     *)

\* The lists a consumer may allow: any single column, all columns but the
\* first, and all columns in reverse order.
AllowedLists(cfg) ==
    {<<columns(cfg)[c]>> : c \in 1..Len(columns(cfg))}
    \cup {Tail(columns(cfg)), Reverse(columns(cfg))}

AllowColumns ==
    /\ Len(table_out) < MaxCalls
    /\ \A n \in 1..Len(table_out) : "allowed" \notin DOMAIN table_out[n]
    /\ \E allowed \in AllowedLists(config) :
         LET r == allow_columns(table, allowed)
         IN  /\ table' = r.self
             /\ table_out' = Append(table_out,
                                    [self |-> r.self, ret |-> r.ret, allowed |-> allowed])
    /\ UNCHANGED <<document, config, config_out, upstream, csv, csv_out, sent, wire,
                   parser, parser_out, tool_out>>

RestrictedNext == AllowColumns \/ TableNext

RestrictedSpec == Init /\ [][RestrictedNext]_vars

\* The generator as call n found it.
TableBefore(n) ==
    IF n = 1 THEN TableGenerator_new(VecIter(upstream), config) ELSE table_out[n - 1].self

IsAllow(n) == "allowed" \in DOMAIN table_out[n]

\* The slots of a row over all columns that the listed columns name.
Project(row, listed) ==
    [i \in 1..Len(listed) |->
        row[Min({c \in 1..NumColumns : DeclaredColumns[c] = listed[i]})]]

\* What call n would have returned had the columns never been restricted.
Unrestricted(n) ==
    TableGenerator_next([TableBefore(n) EXCEPT !.columns = DeclaredColumns]).ret

----------------------------------------------------------------------------
(* Progress, loss and grouping of the row engines, checked under Spec *)

\* What is left for a generator to draw after call n: the upstream items
\* not yet consumed and the packets in the lookahead buffer.
Remaining(out, n) == (Len(upstream) - Consumed(out, n)) + Len(BufAfter(out, n))

\* No packet that call n drew put a value into the accumulator.
NothingAccumulated(out, n) ==
    \A c \in 1..NumColumns :
        Fillers(Drawn(out, n), Len(Drawn(out, n)), NameOfColumn(c)) = {}

\* C21: every TableGenerator::next call that returns Some leaves fewer items
\* in upstream plus lookahead than it found, and a call that returns an
\* error has consumed a new upstream item, so no item is reported twice; a
\* call returns None only when upstream and lookahead are used up and no
\* drawn packet put a value into the row; hence a consumer that calls on
\* after errors is returned None at the latest by the call after as many
\* Some results as upstream has items.
C21_TerminationAndProgress ==
    \A n \in 1..Len(table_out) :
        /\ table_out[n].ret.tag = "Some" =>
             Remaining(table_out, n) < Remaining(table_out, n - 1)
        /\ IsError(table_out[n].ret) =>
             Consumed(table_out, n) > Consumed(table_out, n - 1)
        /\ table_out[n].ret = None =>
             /\ Remaining(table_out, n) = 0
             /\ NothingAccumulated(table_out, n)
        /\ (\A m \in 1..n : table_out[m].ret.tag = "Some") => n <= Len(upstream)

C21_Witness ==
    /\ Len(upstream) = 3
    /\ upstream[2].tag = "Ok" /\ ~IsValid(upstream[2])
    /\ IsValid(upstream[3])
    /\ Len(table_out) >= 3
    /\ IsError(table_out[1].ret)
    /\ IsOkRow(table_out[2].ret)
    /\ table_out[3].ret = None

\* The calls whose row holds value i of a valid packet in its column.
HeldBy(item, i) ==
    {m \in 1..Len(table_out) :
        /\ IsOkRow(table_out[m].ret)
        /\ Len(table_out[m].ret.val.val) = NumColumns
        /\ table_out[m].ret.val.val[ColumnIndex(SensorIndexOf(item), i)]
             = Some([value |-> item.val.values[i],
                     value_kind |-> SensorOf(item).values[i].data_type])}

\* C24: over unique column names, once TableGenerator::next has returned
\* None, every valid packet that a call drew before the item it returned an
\* error for, the packet it took from the lookahead buffer included, has
\* each of its values in exactly one returned row.
C24_NoLossAroundError ==
    (UniqueColumns /\ Finished(table_out)) =>
        \A n \in 1..Len(table_out) :
            IsError(table_out[n].ret) =>
                LET D == Drawn(table_out, n)
                IN  \A j \in 1..(Len(D) - 1) :
                        IsValid(D[j]) =>
                            \A i \in 1..Len(D[j].val.values) :
                                Cardinality(HeldBy(D[j], i)) = 1

\* C25: over unique column names, among the packets a TableGenerator::next
\* call merges into its accumulator no two that carry values belong to the
\* same sensor and no column is filled by more than one value, and the
\* slot of a filled column in the returned row holds just that value.
C25_NoOverwrite ==
    UniqueColumns =>
        \A n \in 1..Len(table_out) :
            LET D == Drawn(table_out, n)
                m == Merged(table_out, n)
            IN  /\ \A j, k \in 1..m :
                     (/\ j # k
                      /\ IsValid(D[j]) /\ IsValid(D[k])
                      /\ D[j].val.values # <<>>) =>
                         SensorIndexOf(D[j]) # SensorIndexOf(D[k])
                /\ \A c \in 1..NumColumns :
                     LET hits == Fillers(D, m, NameOfColumn(c))
                     IN  /\ Cardinality(hits) <= 1
                         /\ (IsOkRow(table_out[n].ret) /\ hits # {}) =>
                              \A h \in hits :
                                  table_out[n].ret.val.val[c] =
                                      Some([value |-> D[h[1]].val.values[h[2]],
                                            value_kind |->
                                                SensorOf(D[h[1]]).values[h[2]].data_type])

\* A call merged two packets and left a third, of a sensor already in the
\* row, in the lookahead buffer.
C25_Witness ==
    /\ UniqueColumns
    /\ \E n \in 1..Len(table_out) :
         /\ IsOkRow(table_out[n].ret)
         /\ Merged(table_out, n) = 2
         /\ Len(BufAfter(table_out, n)) = 1
         /\ SensorOf(Ok(BufAfter(table_out, n)[1])).values # <<>>

\* Over an upstream of valid packets: the upstream positions whose packets
\* call n merged into its accumulator.
MergedRange(out, n) ==
    (Consumed(out, n - 1) - Len(BufAfter(out, n - 1)) + 1)
        .. (Consumed(out, n) - Len(BufAfter(out, n)))

PairwiseDistinctSensors(k, q) ==
    \A a, b \in k..q : a # b => SensorIndexOf(upstream[a]) # SensorIndexOf(upstream[b])

\* Call n ended its row for one of the two reasons: the packet it left in
\* the lookahead buffer is of a sensor with a packet in the row, or
\* upstream is exhausted.
ClosedForCause(out, n) ==
    \/ /\ Len(BufAfter(out, n)) = 1
       /\ \E j \in MergedRange(out, n) :
            SensorIndexOf(upstream[j]) = SensorIndexOf(Ok(BufAfter(out, n)[1]))
    \/ /\ BufAfter(out, n) = <<>>
       /\ Consumed(out, n) = Len(upstream)

\* The first packet of the row after row n is of a sensor with a packet in
\* row n.
LaterRowStartsWithRepeat(out, n) ==
    (n < Len(out) /\ IsOkRow(out[n + 1].ret)) =>
        \E j \in MergedRange(out, n) :
            SensorIndexOf(upstream[j]) =
                SensorIndexOf(upstream[Consumed(out, n) - Len(BufAfter(out, n)) + 1])

\* C26 as stated: over unique column names and an upstream of valid
\* packets, a row is closed only for one of the two causes, the later of
\* two consecutive rows starts with a packet of a sensor that is in the
\* earlier, and any consecutive packets of pairwise distinct sensors that
\* have been merged are in the same row.
C26_AnyDistinctRunInOneRow ==
    (UniqueColumns /\ AllValid) =>
        \A n \in 1..Len(table_out) :
            /\ IsOkRow(table_out[n].ret) =>
                 /\ ClosedForCause(table_out, n)
                 /\ LaterRowStartsWithRepeat(table_out, n)
            /\ \A q \in MergedRange(table_out, n) : \A k \in 1..q :
                 PairwiseDistinctSensors(k, q) => k \in MergedRange(table_out, n)

\* C26, amended: as above, but of consecutive packets of pairwise distinct
\* sensors only those that begin with the first packet of a row are all in
\* that row.
C26_GreedyGrouping ==
    (UniqueColumns /\ AllValid) =>
        \A n \in 1..Len(table_out) :
            /\ IsOkRow(table_out[n].ret) =>
                 /\ ClosedForCause(table_out, n)
                 /\ LaterRowStartsWithRepeat(table_out, n)
            /\ \A k \in MergedRange(table_out, n) : \A q \in k..Len(upstream) :
                 (/\ \A j \in MergedRange(table_out, n) : k <= j
                  /\ PairwiseDistinctSensors(k, q)) =>
                     q \in MergedRange(table_out, n)

\* Two packets of different sensors went into one row and the next row
\* began with a packet of one of those sensors.
C26_Witness ==
    /\ UniqueColumns /\ AllValid
    /\ \E n \in 1..(Len(table_out) - 1) :
         /\ IsOkRow(table_out[n].ret) /\ IsOkRow(table_out[n + 1].ret)
         /\ \E k \in MergedRange(table_out, n) :
              /\ k + 1 \in MergedRange(table_out, n)
              /\ PairwiseDistinctSensors(k, k + 1)
              /\ upstream[k].val.values # <<>>
              /\ upstream[k + 1].val.values # <<>>

\* The fields from the i-th on, separated by commas.
RECURSIVE CommaSeparated(_, _)
CommaSeparated(fields, i) ==
    IF i > Len(fields) THEN ""
    ELSE IF i = Len(fields) THEN fields[i]
    ELSE fields[i] \o "," \o CommaSeparated(fields, i + 1)

\* The CSV line of a row: each slot rendered by its kind, an empty slot as
\* the empty field.
LineOfRow(row) == CommaSeparated([c \in 1..Len(row) |-> ExpectedField(row[c])], 1)

\* The item a CsvGenerator owes for an item of the TableGenerator.
CsvItemOf(ret) == IF IsOkRow(ret) THEN Some(Ok(LineOfRow(ret.val.val))) ELSE ret

\* C27: a CsvGenerator and a TableGenerator over the same configuration and
\* upstream correspond item by item once the header is past: call n + 1 of
\* CsvGenerator::next returns the comma-joined rendering of the row call n
\* of TableGenerator::next returns, the same error, or None when that
\* returns None, and leaves the same upstream and lookahead behind.
C27_SameRowEngine ==
    \A n \in 1..Len(table_out) :
        n + 1 <= Len(csv_out) =>
            /\ csv_out[n + 1].ret = CsvItemOf(table_out[n].ret)
            /\ csv_out[n + 1].self.iter = table_out[n].self.iter
            /\ csv_out[n + 1].self.packet_buf = table_out[n].self.packet_buf

\* Both generators have returned a row with an empty slot, an error and
\* None.
C27_Witness ==
    /\ Len(csv_out) = Len(table_out) + 1
    /\ Finished(table_out) /\ Finished(csv_out)
    /\ \E n \in 1..Len(table_out) : IsError(table_out[n].ret)
    /\ \E n \in 1..Len(table_out) :
         /\ IsOkRow(table_out[n].ret)
         /\ \E c \in 1..NumColumns : table_out[n].ret.val.val[c] = None
         /\ Len(BufAfter(table_out, n)) = 1

\* A valid packet of a sensor that declares no values.
IsValueless(item) == IsValid(item) /\ SensorOf(item).values = <<>>

\* C30: every row TableGenerator::next returns has a non-empty slot; a
\* packet of a sensor that declares no values is never the packet left in
\* the lookahead buffer, so it closes no row; a call that merged only such
\* packets returns no row, and over an upstream of only such packets every
\* call returns None.
C30_NoEmptyRows ==
    /\ \A n \in 1..Len(table_out) :
         /\ IsOkRow(table_out[n].ret) =>
              \E c \in 1..Len(table_out[n].ret.val.val) :
                  table_out[n].ret.val.val[c] # None
         /\ \A j \in 1..Len(BufAfter(table_out, n)) :
              ~IsValueless(Ok(BufAfter(table_out, n)[j]))
         /\ (\A j \in 1..Len(Drawn(table_out, n)) : IsValueless(Drawn(table_out, n)[j])) =>
              table_out[n].ret = None
    /\ (\A k \in 1..Len(upstream) : IsValueless(upstream[k])) =>
         \A n \in 1..Len(table_out) : table_out[n].ret = None

\* Upstream holds nothing but packets of a sensor without values, several
\* of them, and the generator has been called.
C30_Witness ==
    /\ Len(upstream) >= 2
    /\ \A k \in 1..Len(upstream) : IsValueless(upstream[k])
    /\ Len(table_out) >= 1
    /\ table_out[1].ret = None
    /\ Consumed(table_out, 1) = Len(upstream)

----------------------------------------------------------------------------
(* Resynchronisation of the codec, checked under ParserSpec *)

\* Call n starts on the byte b and takes it for a sensor id.
TreatsAsId(n, b) ==
    IF ~ConfiguredId(b) THEN parser_out[n].ret = Some(Err(InvalidId(b)))
    ELSE \/ parser_out[n].ret = Panic
         \/ /\ IsOkPacket(parser_out[n].ret)
            /\ parser_out[n].ret.val.val.id = b

\* C29: a PacketParser::next call that returns InvalidId reports the byte
\* it started on, leaves the reader exactly one byte further, and the call
\* after it returns None if no byte is left and otherwise takes the very
\* next byte for a sensor id.
C29_InvalidIdConsumesOneByte ==
    \A n \in 1..Len(parser_out) :
        IsError(parser_out[n].ret) =>
            /\ ReaderBefore(n) # <<>>
            /\ parser_out[n].ret.val.val = InvalidId(ReaderBefore(n)[1])
            /\ ReaderAfter(n) = Tail(ReaderBefore(n))
            /\ n < Len(parser_out) =>
                 IF ReaderAfter(n) = <<>> THEN parser_out[n + 1].ret = None
                 ELSE TreatsAsId(n + 1, ReaderAfter(n)[1])

\* An InvalidId was followed by a packet read from the very next byte, and
\* elsewhere by another InvalidId.
C29_Witness ==
    /\ \E n \in 1..(Len(parser_out) - 1) :
         /\ IsError(parser_out[n].ret)
         /\ IsOkPacket(parser_out[n + 1].ret)
         /\ parser_out[n + 1].ret.val.val.values # <<>>
    /\ \E n \in 1..(Len(parser_out) - 1) :
         /\ IsError(parser_out[n].ret)
         /\ IsError(parser_out[n + 1].ret)

----------------------------------------------------------------------------
(* The row engines fed by a PacketParser: TableGenerator::new(packet_parser, *)
(* config.clone()) as Report::new and the tools build them                   *)

\* What the flight computer writes to a file that is rendered later: whole
\* packets and bytes that are no sensor's id, so that every float read back
\* is one that was sent.
PipeFrames(cfg) == {f \in Frames(cfg) : f.kind = "packet" \/ f.byte \in UnknownIds}

\* How many bytes the file may lack at its end.
Cuts == {0, 1}

CutShort(bytes, cut) == SubSeq(bytes, 1, Len(bytes) - Min({cut, Len(bytes)}))

\* A loaded configuration and a data file of at most max_frames frames,
\* with a parser and the two generators built over it.
FileInit(max_frames) ==
    /\ document \in Documents
    /\ config = load_config_str(document).val
    /\ config_out = None
    /\ sent \in SeqsUpTo(PipeFrames(config), max_frames)
    /\ \E cut \in Cuts : wire = CutShort(EncodeFrames(config, sent, 1), cut)
    /\ parser = PacketParser_new(wire, config)
    /\ parser_out = <<>>
    /\ tool_out = None
    /\ upstream = <<>>
    /\ table = TableGenerator_new(ParserIter(PacketParser_new(wire, config)), config)
    /\ table_out = <<>>
    /\ csv = CsvGenerator_new(ParserIter(PacketParser_new(wire, config)), config)
    /\ csv_out = <<>>

PipeInit == FileInit(MaxPipeFrames)

PipeSpec == PipeInit /\ [][Next]_vars

\* What a parser yields from here to the end of its stream: Ok packets and
\* errors, and last the panic if it ends in one.
RECURSIVE ParserRun(_)
ParserRun(p) ==
    LET r == PacketParser_next(p)
    IN  IF r.ret = None THEN <<>>
        ELSE IF r.ret = Panic THEN <<Panic>>
        ELSE <<r.ret.val>> \o ParserRun(r.self)

ParserErrors == SelectSeq(ParserRun(parser), LAMBDA item : item.tag = "Err")

\* The errors a generator returned are, in order, errors the parser yields,
\* and none is an InvalidValueCount.
ErrorsAreTheParsers(out) ==
    LET errs == SelectSeq(out, LAMBDA r : IsError(r.ret))
    IN  /\ Len(errs) <= Len(ParserErrors)
        /\ \A i \in 1..Len(errs) :
             /\ errs[i].ret.val = ParserErrors[i]
             /\ errs[i].ret.val.val.kind # "InvalidValueCount"

\* C28: with a row engine fed by a PacketParser built from the same
\* configuration, every packet the parser yields as Ok has a configured id
\* and as many values as its sensor declares, so the engine's own checks
\* never fire, and the errors TableGenerator::next and CsvGenerator::next
\* return are, in order, the errors the parser yields.
C28_CodecAndEngineAgree ==
    /\ \A i \in 1..Len(ParserRun(parser)) :
         ParserRun(parser)[i].tag = "Ok" => IsValid(ParserRun(parser)[i])
    /\ ErrorsAreTheParsers(table_out)
    /\ ErrorsAreTheParsers(csv_out)

\* Both generators, reading a stream that holds a stray byte and a packet
\* with values, have returned the parser's error and a row.
C28_Witness ==
    /\ \E i \in 1..Len(ParserRun(parser)) :
         /\ ParserRun(parser)[i].tag = "Ok"
         /\ ParserRun(parser)[i].val.values # <<>>
    /\ \E n \in 1..Len(table_out) : IsError(table_out[n].ret)
    /\ \E n \in 1..Len(table_out) : IsOkRow(table_out[n].ret)
    /\ \E n \in 2..Len(csv_out) : IsError(csv_out[n].ret)
    /\ \E n \in 2..Len(csv_out) : IsOkRow(csv_out[n].ret)

----------------------------------------------------------------------------
(* The consuming tools: the CLI's convert_data and the web package's       *)
(* convert_to_csv.  What a tool wrote to its output file is the string     *)
(* `output`; what the CLI printed to stderr is the sequence of the errors  *)
(* it printed.  Writes to the output file are taken to succeed.            *)

\* while let Some(line) = csv_gen.next(): an error is printed and the loop
\* continues; a line is written, then "\n".
RECURSIVE convert_data_loop(_, _, _, _)
convert_data_loop(csv_gen, output, stderr, undefined) ==
    LET body(r) ==
            IF r.ret = None THEN [ret |-> Unit, output |-> output, stderr |-> stderr]
            ELSE IF r.ret = Panic
            THEN [ret |-> Panic, output |-> output, stderr |-> stderr]
            ELSE IF r.ret.val.tag = "Err"
            THEN convert_data_loop(r.self, output, Append(stderr, r.ret.val.val),
                                   undefined)
            ELSE convert_data_loop(r.self, output \o r.ret.val.val \o "\n",
                                   stderr, undefined)
    IN  body(CsvGenerator_next(csv_gen, undefined))

convert_data(cfg, data, undefined) ==
    LET packet_parser == PacketParser_new(data, cfg)
        csv_gen == CsvGenerator_new(ParserIter(packet_parser), cfg)
    IN  convert_data_loop(csv_gen, "", <<>>, undefined)

\* while let Some(Ok(line)) = csv_generator.next(): the loop ends at None
\* and at the first error alike; a line is written as it is.
RECURSIVE convert_to_csv_loop(_, _, _)
convert_to_csv_loop(csv_generator, output, undefined) ==
    LET body(r) ==
            IF r.ret = Panic THEN [ret |-> Panic, output |-> output]
            ELSE IF r.ret = None \/ r.ret.val.tag = "Err"
            THEN [ret |-> Ok(Unit), output |-> output]
            ELSE convert_to_csv_loop(r.self, output \o r.ret.val.val, undefined)
    IN  body(CsvGenerator_next(csv_generator, undefined))

convert_to_csv(doc, data, undefined) ==
    LET loaded == load_config_str(doc)
        packet_parser == PacketParser_new(data, loaded.val)
        csv_generator == CsvGenerator_new(ParserIter(packet_parser), loaded.val)
    IN  IF loaded.tag = "Err" THEN [ret |-> loaded, output |-> ""]
        ELSE convert_to_csv_loop(csv_generator, "", undefined)

ToolInit == FileInit(MaxFrames)

ConvertData ==
    /\ tool_out = None
    /\ \E undefined \in UndefinedStrings :
         LET r == convert_data(config, wire, undefined)
         IN  tool_out' = [op |-> "convert_data", ret |-> r.ret, output |-> r.output,
                          stderr |-> r.stderr]
    /\ UNCHANGED <<document, config, config_out, upstream, table, table_out, csv, csv_out,
                   sent, wire, parser, parser_out>>

ConvertToCsv ==
    /\ tool_out = None
    /\ \E undefined \in UndefinedStrings :
         LET r == convert_to_csv(document, wire, undefined)
         IN  tool_out' = [op |-> "convert_to_csv", ret |-> r.ret, output |-> r.output]
    /\ UNCHANGED <<document, config, config_out, upstream, table, table_out, csv, csv_out,
                   sent, wire, parser, parser_out>>

----------------------------------------------------------------------------
(* Report::new.  TypedValue::partial_min and partial_max are called there  *)
(* but defined nowhere in the crate; they are taken from the specification: *)
(* values of one kind are ordered numerically, values of different kinds   *)
(* and NaN are not comparable.                                              *)

\* a < b for bit patterns of equal width read as unsigned numbers
RECURSIVE LexLess(_, _, _)
LexLess(a, b, i) ==
    IF i > Len(a) THEN FALSE
    ELSE IF a[i] # b[i] THEN a[i] < b[i]
    ELSE LexLess(a, b, i + 1)

IsFloatKind(kind) == kind \in {"Float32", "Float64"}

IsSignedKind(kind) == kind \in {"Int8", "Int16", "Int32", "Int64"}

IsNaN(bits) ==
    IF Len(bits) = 4
    THEN /\ bits[1] % 128 = 127 /\ bits[2] >= 128
         /\ (bits[2] # 128 \/ bits[3] # 0 \/ bits[4] # 0)
    ELSE /\ bits[1] % 128 = 127 /\ bits[2] >= 240
         /\ (bits[2] # 240 \/ \E i \in 3..8 : bits[i] # 0)

\* a < b as numbers of the kind
NumericLess(a, b, kind) ==
    IF IsFloatKind(kind)
    THEN IF a[1] >= 128 /\ b[1] >= 128 THEN LexLess(b, a, 1)
         ELSE IF a[1] >= 128
         THEN ~(IsZero([a EXCEPT ![1] = @ - 128]) /\ IsZero(b))
         ELSE IF b[1] >= 128 THEN FALSE
         ELSE LexLess(a, b, 1)
    ELSE IF IsSignedKind(kind) /\ (a[1] >= 128) # (b[1] >= 128) THEN a[1] >= 128
    ELSE LexLess(a, b, 1)

Comparable(a, b) ==
    /\ a.value_kind = b.value_kind
    /\ IsFloatKind(a.value_kind) => ~IsNaN(a.value) /\ ~IsNaN(b.value)

partial_min(a, b) ==
    IF ~Comparable(a, b) THEN None
    ELSE IF NumericLess(b.value, a.value, a.value_kind) THEN Some(b) ELSE Some(a)

partial_max(a, b) ==
    IF ~Comparable(a, b) THEN None
    ELSE IF NumericLess(a.value, b.value, a.value_kind) THEN Some(b) ELSE Some(a)

ValueStats(min, max, count) == [min |-> min, max |-> max, count |-> count]

\* An entry that is created with the first sample already counted.
UpdateStats_count_from_one(column_stats, name, value) ==
    LET stats == IF name \in DOMAIN column_stats THEN column_stats[name]
                 ELSE ValueStats(value, value, 1)
        min == partial_min(stats.min, value)
        max == partial_max(stats.max, value)
    IN  IF min = None \/ max = None THEN Panic
        ELSE Ok(Insert(column_stats, name,
                       ValueStats(min.val, max.val, stats.count + 1)))

\* column_stats.entry(..).or_insert_with(..), then min, max and count of
\* the entry are updated; either unwrap panics on None.
UpdateStats(column_stats, name, value) ==
    LET stats == IF name \in DOMAIN column_stats THEN column_stats[name]
                 ELSE ValueStats(value, value, 0)
        min == partial_min(stats.min, value)
        max == partial_max(stats.max, value)
    IN  IF min = None \/ max = None THEN Panic
        ELSE Ok(Insert(column_stats, name,
                       ValueStats(min.val, max.val, stats.count + 1)))

\* The loop over column_names.iter().zip(row.iter()), from the i-th pair.
RECURSIVE FoldRow(_, _, _, _)
FoldRow(column_stats, names, row, i) ==
    IF i > Len(names) \/ i > Len(row) THEN Ok(column_stats)
    ELSE IF row[i] = None THEN FoldRow(column_stats, names, row, i + 1)
    ELSE LET u == UpdateStats(column_stats, names[i], row[i].val)
         IN  IF u = Panic THEN Panic
             ELSE FoldRow(u.val, names, row, i + 1)

\* while let Some(row) = table_generator.next(), with row.unwrap()
RECURSIVE FoldRows(_, _, _)
FoldRows(table_generator, names, column_stats) ==
    LET fold(r, folded) ==
            IF folded = Panic THEN Panic
            ELSE FoldRows(r.self, names, folded.val)
        body(r) ==
            IF r.ret = None THEN Ok(column_stats)
            ELSE IF r.ret = Panic \/ r.ret.val.tag = "Err" THEN Panic
            ELSE fold(r, FoldRow(column_stats, names, r.ret.val.val, 1))
    IN  body(TableGenerator_next(table_generator))

\* The loop over the sensor's values that copies the column's statistics
\* under the value's name, from the i-th value.
RECURSIVE SensorValueStats(_, _, _, _)
SensorValueStats(sensor, column_stats, value_stats, i) ==
    IF i > Len(sensor.values) THEN value_stats
    ELSE LET name == column_name(sensor, sensor.values[i])
         IN  SensorValueStats(sensor, column_stats,
                 IF name \in DOMAIN column_stats
                 THEN Insert(value_stats, sensor.values[i].name, column_stats[name])
                 ELSE value_stats,
                 i + 1)

\* The loop over config.sensors that inserts each sensor's report under its
\* id, from the s-th sensor.
RECURSIVE SensorReports(_, _, _, _)
SensorReports(cfg, column_stats, sensor_reports, s) ==
    IF s > Len(cfg.sensors) THEN sensor_reports
    ELSE SensorReports(cfg, column_stats,
             Insert(sensor_reports, cfg.sensors[s].id,
                    [value_stats |->
                        SensorValueStats(cfg.sensors[s], column_stats, <<>>, 1)]),
             s + 1)

Report_new(cfg, packet_parser) ==
    LET table_generator == TableGenerator_new(ParserIter(packet_parser), cfg)
        report(column_stats) ==
            IF column_stats = Panic THEN [ret |-> Panic]
            ELSE [ret |-> [config |-> cfg,
                           sensor_reports |->
                               SensorReports(cfg, column_stats.val, <<>>, 1)]]
    IN  report(FoldRows(table_generator, column_names(table_generator), <<>>))

ReportNew ==
    /\ tool_out = None
    /\ tool_out' = [op |-> "Report::new",
                    ret |-> Report_new(config, PacketParser_new(wire, config)).ret]
    /\ UNCHANGED <<document, config, config_out, upstream, table, table_out, csv, csv_out,
                   sent, wire, parser, parser_out>>

ToolNext == ConvertData \/ ConvertToCsv \/ ReportNew

ToolSpec == ToolInit /\ [][ToolNext]_vars

----------------------------------------------------------------------------
(* Properties of the consuming tools, checked under ToolSpec *)

\* The items a CsvGenerator yields from here until None: lines and errors;
\* empty from a panic on.
RECURSIVE CsvRun(_)
CsvRun(gen) ==
    LET r == CsvGenerator_next(gen, "")
    IN  IF r.ret = None \/ r.ret = Panic THEN <<>>
        ELSE <<r.ret.val>> \o CsvRun(r.self)

\* The items up to and including the first error.
RECURSIVE ThroughFirstError(_)
ThroughFirstError(items) ==
    IF items = <<>> THEN <<>>
    ELSE IF items[1].tag = "Err" THEN <<items[1]>>
    ELSE <<items[1]>> \o ThroughFirstError(Tail(items))

\* Every line among the items, each followed by the line terminator.
RECURSIVE TerminatedLines(_)
TerminatedLines(items) ==
    IF items = <<>> THEN ""
    ELSE (IF items[1].tag = "Ok" THEN items[1].val \o "\n" ELSE "")
         \o TerminatedLines(Tail(items))

ErrorsAmong(items) ==
    LET errs == SelectSeq(items, LAMBDA item : item.tag = "Err")
    IN  [i \in 1..Len(errs) |-> errs[i].val]

\* The errors a tool made known: those the CLI printed, the one the web
\* package's function returned.
Reported(t) ==
    IF t.op = "convert_data" THEN t.stderr
    ELSE IF t.ret.tag = "Err" THEN <<t.ret.val>>
    ELSE <<>>

\* The tool dealt with these items by the policy: it made every error among
\* them known and wrote every line among them, terminated, in order.
FollowsPolicy(t, items) ==
    /\ Reported(t) = ErrorsAmong(items)
    /\ t.output = TerminatedLines(items)

IsConversion(t) == t # None /\ t.op \in {"convert_data", "convert_to_csv"}

\* C22: a run of convert_data or of convert_to_csv that does not panic
\* either continued after errors or halted at the first one; it made every
\* error it came to known, and its output is the lines it came to, each
\* complete and followed by a line terminator, in the order produced.
C22_ConsumerErrorPolicy ==
    (IsConversion(tool_out) /\ tool_out.ret # Panic) =>
        \/ FollowsPolicy(tool_out, CsvRun(csv))
        \/ FollowsPolicy(tool_out, ThroughFirstError(CsvRun(csv)))

\* The same of the CLI's convert_data alone.
CliFollowsPolicy ==
    (IsConversion(tool_out) /\ tool_out.op = "convert_data" /\ tool_out.ret # Panic) =>
        FollowsPolicy(tool_out, CsvRun(csv))

\* The rows a TableGenerator yields from here until None, an error or a
\* panic.
RECURSIVE TableRows(_)
TableRows(gen) ==
    LET r == TableGenerator_next(gen)
    IN  IF ~IsOkRow(r.ret) THEN <<>>
        ELSE <<r.ret.val.val>> \o TableRows(r.self)

UniqueIds ==
    \A s, t \in 1..Len(config.sensors) :
        s # t => config.sensors[s].id # config.sensors[t].id

\* A bit pattern turned into one whose unsigned order is the numeric order
\* of the kind: the sign bit flipped, and a negative float complemented.
OrderKey(bits, kind) ==
    IF IsFloatKind(kind) /\ bits[1] >= 128 THEN [j \in 1..Len(bits) |-> 255 - bits[j]]
    ELSE IF IsFloatKind(kind) \/ IsSignedKind(kind)
    THEN [bits EXCEPT ![1] = (@ + 128) % 256]
    ELSE bits

\* a is not greater than b, both of the kind
NotGreater(a, b, kind) ==
    LET x == OrderKey(a.value, kind)
        y == OrderKey(b.value, kind)
    IN  \/ x = y
        \/ \E i \in 1..Len(x) : x[i] < y[i] /\ \A j \in 1..(i - 1) : x[j] = y[j]

IsReport(t) == t # None /\ t.op = "Report::new" /\ t.ret # Panic

\* The samples of column c: the rows whose slot c is not empty.
Samples(rows, c) == {n \in 1..Len(rows) : rows[n][c] # None}

----------------------------------------------------------------------------
(* The lookahead buffer between calls, checked under Spec *)

\* What C31 says of one generator; `expected` is the row or line a call
\* owes for the first m drawn items.
LookaheadDrainedFirst(out, expected(_, _)) ==
    \A n \in 1..Len(out) :
        /\ \A i \in 1..Len(BufAfter(out, n)) : IsValid(Ok(BufAfter(out, n)[i]))
        /\ out[n].ret = None => BufAfter(out, n) = <<>>
        /\ BufAfter(out, n - 1) # <<>> =>
             LET held == Head(BufAfter(out, n - 1))
                 D == Drawn(out, n)
             IN  /\ out[n].ret # None
                 /\ \A i \in 1..Len(BufAfter(out, n)) : BufAfter(out, n)[i] # held
                 /\ Consumed(out, n) = Consumed(out, n - 1) =>
                      out[n].ret = Some(Ok(expected(<<Ok(held)>>, 1)))
                 /\ IsOkRow(out[n].ret) =>
                      \E m \in 1..Len(D) : out[n].ret = Some(Ok(expected(D, m)))
                 /\ ~IsOkRow(out[n].ret) =>
                      /\ Consumed(out, n) > Consumed(out, n - 1)
                      /\ ~IsValid(upstream[Consumed(out, n)])

\* C31: every packet in packet_buf after a call has a configured sensor id
\* and as many values as that sensor declares; a call that starts with a
\* buffered packet takes it out of the buffer before it reads upstream, so
\* the packet is no longer buffered when the call ends, the call does not
\* return None, a row it returns is built from the buffered packet onwards
\* (from it alone when the call read nothing upstream), and an error it
\* returns is about an upstream item the call read, never about the
\* buffered packet; a call that returns None leaves the buffer empty.
\* TableGenerator and CsvGenerator alike.
C31_LookaheadValidatedAndDrainedFirst ==
    /\ LookaheadDrainedFirst(table_out, ExpectedRow)
    /\ LookaheadDrainedFirst(csv_out, ExpectedLine)

\* A call that started with a buffered packet while upstream items were
\* left, read some of them and returned a row, and a later call that
\* returned None.
DrainedBeforeUpstream(out) ==
    /\ Finished(out)
    /\ \E n \in 2..Len(out) :
         /\ BufAfter(out, n - 1) # <<>>
         /\ Consumed(out, n) > Consumed(out, n - 1)
         /\ IsOkRow(out[n].ret)

C31_Witness == DrainedBeforeUpstream(table_out) /\ DrainedBeforeUpstream(csv_out)

====
